---- MODULE Spec2Model ----
(***************************************************************************)
(* A model of the boot-time orchestrator of apd (src/apd/src/event.rs,     *)
(* restorecon.rs, mount.rs).  The module holds several specifications over *)
(* one set of variables:                                                   *)
(*   SpecWatch  start_uid_listener: inotify callback, debounce loop and    *)
(*              the shutdown-signal thread;                                *)
(*   SpecBoot   on_post_data_fs, run after run, over a persistent file     *)
(*              system (marker files, module image, security labels);      *)
(*   SpecLabel  restore_syscon / restore_syscon_if_unlabeled on a tree;    *)
(*   SpecMode   get_mount_mode on every mode-file content;                 *)
(*   SpecOverlay mount_systemlessly_overlayfs on every module directory;   *)
(*   SpecStage  run_stage for every stage and device condition;            *)
(*   SpecMount  bind_mount and mount_tmpfs of mount.rs, syscall by syscall.*)
(* A specification leaves the variables of the others untouched.           *)
(***************************************************************************)
EXTENDS Integers, Sequences, FiniteSets, TLC

VARIABLES
    \* ---- start_uid_listener ----
    chan,        \* the mpsc channel (tx, tx_clone -> rx): queue of messages
    wpc,         \* position of the main loop
    debounce,    \* the local `debounce` of the main loop
    spc,         \* position of the shutdown-signal thread
    sigPending,  \* signals delivered to the Signals iterator and not yet taken
    locks,       \* holder of each mutex
    sent,        \* number of "start" messages posted by the inotify callback
    nSignals,    \* number of termination signals delivered so far
    nDebRefresh, \* refresh_ap_package_list calls made by the main loop
    nSigRefresh, \* refresh_ap_package_list calls made by the signal thread
    timerLog,    \* one entry per 1-second timer started: the start that started it
    obs,         \* the observer: the live Sender handles, an error reported, and
                 \* for each start posted the refresh calls made until then
    \* ---- restore_syscon on a tree ----
    tree,        \* security label of every entry of the walked tree
    tree0,       \* the labels when the current pass began
    lfn,         \* the function running the pass
    lpc,         \* "idle", "walk" or "done"
    lidx,        \* number of entries the walk has yielded so far
    reads,       \* lgetxattr calls of the pass
    writes,      \* lsetxattr calls of the pass
    wrote,       \* the entries the pass called lsetxattr on
    walked,      \* the entries the walk yielded without error
    lres,        \* result of the pass
    passes,      \* passes begun
    \* ---- get_mount_mode ----
    modeFile,    \* "missing", "unreadable" or "file"
    modeContent, \* content of the mode file, a sequence of tokens
    liteMarker,  \* the legacy lite-mode marker exists
    modeResult,  \* what get_mount_mode returned, "none" before the call
    \* ---- on_post_data_fs ----
    fs,          \* what persists across boots: marker, image, modules, labels
    boot,        \* the running on_post_data_fs: position, locals, event log
    mounts,      \* the overlay mounts in place since this boot
    \* ---- mount_systemlessly_overlayfs on its own ----
    ovl,         \* one call: the directory scanned, the lists built, the calls made
    \* ---- run_stage ----
    stg,         \* one call: the stage, the device's condition, the steps attempted
    \* ---- mount.rs ----
    lm           \* one call of bind_mount or mount_tmpfs: syscalls made, mounts created

watchVars == <<chan, wpc, debounce, spc, sigPending, locks, sent, nSignals,
               nDebRefresh, nSigRefresh, timerLog, obs>>

labelVars == <<tree, tree0, lfn, lpc, lidx, reads, writes, wrote, walked, lres, passes>>

modeVars == <<modeFile, modeContent, liteMarker, modeResult>>

bootVars == <<fs, boot, mounts>>

ovlVars == <<ovl>>

stageVars == <<stg>>

mountVars == <<lm>>

vars == <<watchVars, labelVars, modeVars, bootVars, ovlVars, stageVars, mountVars>>

\* ---------------------------------------------------------------- bounds
MaxStarts == 3
MaxSignals == 2
TreeSize == 3
MaxPasses == 2
MaxContentLen == 3
NumModEntries == 2
\* entries of the module directory mount_systemlessly_overlayfs scans
NumOvlEntries == 2

\* ------------------------------------------------------- start_uid_listener

\* The mutex created by start_uid_listener and the one that exists only if a
\* thread were handed a mutex of its own.
MutexIds == {"mutex", "fresh"}

\* event.rs:611,653  the main loop passes `mutex`
MainMutex == "mutex"

\* Mutant of SignalMutex: the signal thread locks a mutex of its own.
SignalMutexFresh == "fresh"

\* event.rs:614,621  the signal thread passes mutex.clone(): the same mutex
SignalMutex == "mutex"

\* The termination signals the thread registers (event.rs:616).
TermSignals == {"SIGTERM", "SIGINT", "SIGPWR"}

\* The kinds of event the inotify callback can be handed (event.rs:628-641).
FsEvents == {"rename_both_match", "rename_both_other", "other_kind", "error"}

StartMsg == [delayed |-> FALSE,
             inWindow |-> (wpc = "sleep" \/ debounce),
             inSleep |-> (wpc = "sleep"),
             afterShutdown |-> (spc = "done")]

FireMsg == [delayed |-> TRUE, inWindow |-> FALSE, inSleep |-> FALSE,
            afterShutdown |-> FALSE]

\* Mutex::lock and the guard's drop inside refresh_ap_package_list.
Lock(m, who) == locks[m] = "none" /\ locks' = [locks EXCEPT ![m] = who]

Unlock(m) == locks' = [locks EXCEPT ![m] = "none"]

WatchIdle ==
    /\ chan = <<>>
    /\ wpc = "recv"
    /\ debounce = FALSE
    /\ spc = "wait"
    /\ sigPending = 0
    /\ locks = [m \in MutexIds |-> "none"]
    /\ sent = 0
    /\ nSignals = 0
    /\ nDebRefresh = 0
    /\ nSigRefresh = 0
    /\ timerLog = <<>>
    /\ obs = [senders |-> {"tx", "tx_clone"}, errored |-> FALSE, posted |-> <<>>]

WatchFrame == UNCHANGED <<labelVars, modeVars, bootVars, ovlVars, stageVars, mountVars>>

\* event.rs:627-643  the inotify callback, which owns tx_clone: a rename-pair
\* event naming packages.list.tmp posts `false` ("start") through tx_clone; an
\* error of the observer is logged; every other event does nothing.
WatcherCallback ==
    \E ev \in FsEvents :
        /\ "tx_clone" \in obs.senders
        /\ sent < MaxStarts
        /\ IF ev = "rename_both_match"
              THEN /\ chan' = Append(chan, StartMsg)
                   /\ sent' = sent + 1
              ELSE UNCHANGED <<chan, sent>>
        /\ obs' = CASE ev = "error" -> [obs EXCEPT !.errored = TRUE]
                    [] ev = "rename_both_match" ->
                          [obs EXCEPT !.posted = Append(@, nDebRefresh)]
                    [] OTHER -> obs
        /\ UNCHANGED <<wpc, debounce, spc, sigPending, locks, nSignals,
                       nDebRefresh, nSigRefresh, timerLog>>
        /\ WatchFrame

\* The observer's event loop ends and drops the callback, and tx_clone with
\* it; `tx` stays a local of start_uid_listener (event.rs:609, used at 657).
ObserverEnds ==
    /\ "tx_clone" \in obs.senders
    /\ obs' = [obs EXCEPT !.senders = @ \ {"tx_clone"}]
    /\ UNCHANGED <<chan, wpc, debounce, spc, sigPending, locks, sent, nSignals,
                   nDebRefresh, nSigRefresh, timerLog>>
    /\ WatchFrame

\* event.rs:648,661  rx.recv() fails, which it does on an empty channel with
\* no sender left: the loop ends and start_uid_listener returns Ok(()).
RecvDisconnected == chan = <<>> /\ obs.senders = {}

\* Mutant of MainTakeStart: the `!debounce` test is missing.
MainTakeStartNoCheck ==
    /\ wpc = "recv"
    /\ chan # <<>>
    /\ ~Head(chan).delayed
    /\ chan' = Tail(chan)
    /\ wpc' = "sleep"
    /\ timerLog' = Append(timerLog, Head(chan))
    /\ UNCHANGED <<debounce, spc, sigPending, locks, sent, nSignals,
                   nDebRefresh, nSigRefresh>>
    /\ UNCHANGED obs
    /\ WatchFrame

\* rx.recv() returns `false`: if no window is pending the loop sleeps one
\* second; otherwise the message is dropped.
MainTakeStart ==
    /\ wpc = "recv"
    /\ chan # <<>>
    /\ ~Head(chan).delayed
    /\ chan' = Tail(chan)
    /\ IF ~debounce
          THEN /\ wpc' = "sleep"
               /\ timerLog' = Append(timerLog, Head(chan))
          ELSE UNCHANGED <<wpc, timerLog>>
    /\ UNCHANGED <<debounce, spc, sigPending, locks, sent, nSignals,
                   nDebRefresh, nSigRefresh>>
    /\ UNCHANGED obs
    /\ WatchFrame

\* The sleep returns: debounce = true; tx.send(true).
MainTimerElapsed ==
    /\ wpc = "sleep"
    /\ debounce' = TRUE
    /\ chan' = Append(chan, FireMsg)
    /\ wpc' = "recv"
    /\ UNCHANGED <<spc, sigPending, locks, sent, nSignals, nDebRefresh,
                   nSigRefresh, timerLog>>
    /\ UNCHANGED obs
    /\ WatchFrame

\* Mutant of MainTakeFire: `debounce = false` is missing.
MainTakeFireKeepsDebounce ==
    /\ wpc = "recv"
    /\ chan # <<>>
    /\ Head(chan).delayed
    /\ chan' = Tail(chan)
    /\ nDebRefresh' = nDebRefresh + 1
    /\ wpc' = "lock"
    /\ UNCHANGED <<debounce, spc, sigPending, locks, sent, nSignals, nSigRefresh,
                   timerLog>>
    /\ UNCHANGED obs
    /\ WatchFrame

\* rx.recv() returns `true`: debounce = false; refresh_ap_package_list(mutex).
MainTakeFire ==
    /\ wpc = "recv"
    /\ chan # <<>>
    /\ Head(chan).delayed
    /\ chan' = Tail(chan)
    /\ debounce' = FALSE
    /\ nDebRefresh' = nDebRefresh + 1
    /\ wpc' = "lock"
    /\ UNCHANGED <<spc, sigPending, locks, sent, nSignals, nSigRefresh, timerLog>>
    /\ UNCHANGED obs
    /\ WatchFrame

\* refresh_ap_package_list, called by the main loop: take the mutex ...
MainRefreshBegin ==
    /\ wpc = "lock"
    /\ Lock(MainMutex, "main")
    /\ wpc' = "refreshing"
    /\ UNCHANGED <<chan, debounce, spc, sigPending, sent, nSignals,
                   nDebRefresh, nSigRefresh, timerLog>>
    /\ UNCHANGED obs
    /\ WatchFrame

\* ... do the privileged refresh, release the mutex, return to rx.recv().
MainRefreshEnd ==
    /\ wpc = "refreshing"
    /\ Unlock(MainMutex)
    /\ wpc' = "recv"
    /\ UNCHANGED <<chan, debounce, spc, sigPending, sent, nSignals,
                   nDebRefresh, nSigRefresh, timerLog>>
    /\ UNCHANGED obs
    /\ WatchFrame

\* The OS delivers a termination signal to the process.
SignalArrives ==
    \E sig \in TermSignals :
        /\ nSignals < MaxSignals
        /\ nSignals' = nSignals + 1
        /\ sigPending' = sigPending + 1
        /\ UNCHANGED <<chan, wpc, debounce, spc, locks, sent, nDebRefresh,
                       nSigRefresh, timerLog>>
        /\ UNCHANGED obs
    /\ WatchFrame

\* signals.forever() yields the first signal: the thread calls
\* refresh_ap_package_list(mutex_clone).
SignalTake ==
    /\ spc = "wait"
    /\ sigPending > 0
    /\ sigPending' = sigPending - 1
    /\ nSigRefresh' = nSigRefresh + 1
    /\ spc' = "lock"
    /\ UNCHANGED <<chan, wpc, debounce, locks, sent, nSignals, nDebRefresh, timerLog>>
    /\ UNCHANGED obs
    /\ WatchFrame

SignalRefreshBegin ==
    /\ spc = "lock"
    /\ Lock(SignalMutex, "signal")
    /\ spc' = "refreshing"
    /\ UNCHANGED <<chan, wpc, debounce, sigPending, sent, nSignals,
                   nDebRefresh, nSigRefresh, timerLog>>
    /\ UNCHANGED obs
    /\ WatchFrame

\* Mutant of SignalRefreshEnd: the `break` is missing, the thread waits for
\* the next signal.
SignalRefreshEndNoBreak ==
    /\ spc = "refreshing"
    /\ Unlock(SignalMutex)
    /\ spc' = "wait"
    /\ UNCHANGED <<chan, wpc, debounce, sigPending, sent, nSignals,
                   nDebRefresh, nSigRefresh, timerLog>>
    /\ UNCHANGED obs
    /\ WatchFrame

\* The refresh returns and `break` ends the thread.
SignalRefreshEnd ==
    /\ spc = "refreshing"
    /\ Unlock(SignalMutex)
    /\ spc' = "done"
    /\ UNCHANGED <<chan, wpc, debounce, sigPending, sent, nSignals,
                   nDebRefresh, nSigRefresh, timerLog>>
    /\ UNCHANGED obs
    /\ WatchFrame

WatchNext ==
    \/ WatcherCallback
    \/ ObserverEnds
    \/ MainTakeStart
    \/ MainTimerElapsed
    \/ MainTakeFire
    \/ MainRefreshBegin
    \/ MainRefreshEnd
    \/ SignalArrives
    \/ SignalTake
    \/ SignalRefreshBegin
    \/ SignalRefreshEnd


\* ------------------------------------------------------------ restorecon.rs

\* restorecon.rs:12-14
SYSTEM_CON == "u:object_r:system_file:s0"

ADB_CON == "u:object_r:adb_data_file:s0"

UNLABEL_CON == "u:object_r:unlabeled:s0"

\* The labels an entry can carry; "" is an empty security.selinux attribute.
Labels == {SYSTEM_CON, ADB_CON, UNLABEL_CON, ""}

TreeEntries == 1..TreeSize

LabelIdle ==
    /\ tree = <<>>
    /\ tree0 = <<>>
    /\ lfn = "none"
    /\ lpc = "idle"
    /\ lidx = 0
    /\ reads = 0
    /\ writes = 0
    /\ wrote = {}
    /\ walked = {}
    /\ lres = "none"
    /\ passes = 0

LabelInit ==
    /\ tree \in [TreeEntries -> Labels]
    /\ tree0 = tree
    /\ lfn = "none"
    /\ lpc = "idle"
    /\ lidx = 0
    /\ reads = 0
    /\ writes = 0
    /\ wrote = {}
    /\ walked = {}
    /\ lres = "none"
    /\ passes = 0

LabelFrame == UNCHANGED <<watchVars, modeVars, bootVars, ovlVars, stageVars, mountVars>>

\* A caller starts a pass of one of the two walkers over the tree.
LabelCall ==
    \E f \in {"restore_syscon", "restore_syscon_if_unlabeled"} :
        /\ lpc \in {"idle", "done"}
        /\ passes < MaxPasses
        /\ passes' = passes + 1
        /\ lfn' = f
        /\ lpc' = "walk"
        /\ lidx' = 0
        /\ reads' = 0
        /\ writes' = 0
        /\ wrote' = {}
        /\ walked' = {}
        /\ lres' = "none"
        /\ tree0' = tree
        /\ UNCHANGED tree
        /\ LabelFrame

\* Mutant of RestoreSysconStep: the label is read and written only if it
\* differs from the system label.
RestoreSysconStepReadFirst ==
    /\ lfn = "restore_syscon"
    /\ lpc = "walk"
    /\ lidx < TreeSize
    /\ lidx' = lidx + 1
    /\ \E walkOk \in BOOLEAN, setOk \in BOOLEAN :
          IF ~walkOk
             THEN UNCHANGED <<tree, reads, writes, wrote, walked, lpc, lres>>
             ELSE /\ walked' = walked \cup {lidx + 1}
                  /\ reads' = reads + 1
                  /\ IF tree[lidx + 1] # SYSTEM_CON
                        THEN /\ writes' = writes + 1
                             /\ wrote' = wrote \cup {lidx + 1}
                             /\ IF setOk
                                   THEN /\ tree' = [tree EXCEPT ![lidx + 1] = SYSTEM_CON]
                                        /\ UNCHANGED <<lpc, lres>>
                                   ELSE /\ lpc' = "done"
                                        /\ lres' = "err"
                                        /\ UNCHANGED tree
                        ELSE UNCHANGED <<tree, writes, wrote, lpc, lres>>
    /\ UNCHANGED <<tree0, lfn, passes>>
    /\ LabelFrame

\* restore_syscon, one turn of its loop: an entry the walk fails on is
\* skipped; every other entry gets setsyscon(path)?, with no read before it.
RestoreSysconStep ==
    /\ lfn = "restore_syscon"
    /\ lpc = "walk"
    /\ lidx < TreeSize
    /\ lidx' = lidx + 1
    /\ \E walkOk \in BOOLEAN, setOk \in BOOLEAN :
          IF ~walkOk
             THEN UNCHANGED <<tree, writes, wrote, walked, lpc, lres>>
             ELSE /\ walked' = walked \cup {lidx + 1}
                  /\ writes' = writes + 1
                  /\ wrote' = wrote \cup {lidx + 1}
                  /\ IF setOk
                        THEN /\ tree' = [tree EXCEPT ![lidx + 1] = SYSTEM_CON]
                             /\ UNCHANGED <<lpc, lres>>
                        ELSE /\ lpc' = "done"
                             /\ lres' = "err"
                             /\ UNCHANGED tree
    /\ UNCHANGED <<tree0, lfn, reads, passes>>
    /\ LabelFrame

\* restore_syscon_if_unlabeled, one turn of its loop: the label is read, and
\* written only when the read succeeded and gave "unlabeled" or nothing.
RestoreSysconIfUnlabeledStep ==
    /\ lfn = "restore_syscon_if_unlabeled"
    /\ lpc = "walk"
    /\ lidx < TreeSize
    /\ lidx' = lidx + 1
    /\ \E walkOk \in BOOLEAN, getOk \in BOOLEAN, setOk \in BOOLEAN :
          IF ~walkOk
             THEN UNCHANGED <<tree, reads, writes, wrote, walked, lpc, lres>>
             ELSE /\ walked' = walked \cup {lidx + 1}
                  /\ reads' = reads + 1
                  /\ IF getOk /\ tree[lidx + 1] \in {UNLABEL_CON, ""}
                        THEN /\ writes' = writes + 1
                             /\ wrote' = wrote \cup {lidx + 1}
                             /\ IF setOk
                                   THEN /\ tree' = [tree EXCEPT ![lidx + 1] = SYSTEM_CON]
                                        /\ UNCHANGED <<lpc, lres>>
                                   ELSE /\ lpc' = "done"
                                        /\ lres' = "err"
                                        /\ UNCHANGED tree
                        ELSE UNCHANGED <<tree, writes, wrote, lpc, lres>>
    /\ UNCHANGED <<tree0, lfn, passes>>
    /\ LabelFrame

\* The walk is exhausted: Ok(()).
WalkEnd ==
    /\ lpc = "walk"
    /\ lidx = TreeSize
    /\ lpc' = "done"
    /\ lres' = "ok"
    /\ UNCHANGED <<tree, tree0, lfn, lidx, reads, writes, wrote, walked, passes>>
    /\ LabelFrame

LabelNext ==
    \/ LabelCall
    \/ RestoreSysconStep
    \/ RestoreSysconIfUnlabeledStep
    \/ WalkEnd

\* ------------------------------------------------------------ get_mount_mode

\* defs::MOUNT_MODE_MAGIC, MOUNT_MODE_METAMODULE, MOUNT_MODE_DISABLED
MOUNT_MODE_MAGIC == "magic"

MOUNT_MODE_METAMODULE == "metamodule"

MOUNT_MODE_DISABLED == "disabled"

MountModes == {MOUNT_MODE_MAGIC, MOUNT_MODE_METAMODULE, MOUNT_MODE_DISABLED}

\* A mode file's content is a sequence of tokens: "ws" is one whitespace
\* character, "x" one other character, and a mode name its exact characters.
Tokens == {"ws", "x"} \cup MountModes

Contents == UNION {[1..n -> Tokens] : n \in 0..MaxContentLen}

RECURSIVE TrimStart(_)
TrimStart(s) == IF s # <<>> /\ Head(s) = "ws" THEN TrimStart(Tail(s)) ELSE s

RECURSIVE TrimEnd(_)
TrimEnd(s) ==
    IF s # <<>> /\ s[Len(s)] = "ws" THEN TrimEnd(SubSeq(s, 1, Len(s) - 1)) ELSE s

\* str::trim
Trim(s) == TrimEnd(TrimStart(s))

\* Mutant of GetMountMode: the lite-mode marker is not looked at.
GetMountModeNoLegacy(file, content, lite) ==
    IF file = "file" /\ Len(Trim(content)) = 1 /\ Trim(content)[1] \in MountModes
       THEN Trim(content)[1]
       ELSE MOUNT_MODE_MAGIC

\* get_mount_mode: `file` says whether the mode file exists and can be read.
GetMountMode(file, content, lite) ==
    IF file = "file" /\ Len(Trim(content)) = 1 /\ Trim(content)[1] \in MountModes
       THEN Trim(content)[1]
       ELSE IF lite THEN MOUNT_MODE_DISABLED ELSE MOUNT_MODE_MAGIC

ModeIdle ==
    /\ modeFile = "missing"
    /\ modeContent = <<>>
    /\ liteMarker = FALSE
    /\ modeResult = "none"

ModeInit ==
    /\ modeFile \in {"missing", "unreadable", "file"}
    /\ modeContent \in Contents
    /\ (modeFile = "missing" => modeContent = <<>>)
    /\ liteMarker \in BOOLEAN
    /\ modeResult = "none"

ModeFrame == UNCHANGED <<watchVars, labelVars, bootVars, ovlVars, stageVars, mountVars>>

\* A caller reads the mount mode.
ModeCall ==
    /\ modeResult = "none"
    /\ modeResult' = GetMountMode(modeFile, modeContent, liteMarker)
    /\ UNCHANGED <<modeFile, modeContent, liteMarker>>
    /\ ModeFrame

ModeNext == ModeCall

\* ----------------------------------------------------------- on_post_data_fs

\* defs::EXTENDED_PARTITIONS: the tracked partitions besides the root "system".
Parts == {"vendor"}

\* A module directory: its marker files and the subtrees that are directories.
Mod(n, dis, skip, sys, sp, tp) ==
    [name |-> n, disabled |-> dis, skip |-> skip, system |-> sys,
     sysParts |-> sp, topParts |-> tp]

\* The contents of the module directory the runs are checked on.
ModuleConfigs ==
    { {},
      {Mod("m1", FALSE, FALSE, TRUE, {"vendor"}, {"vendor"})},
      {Mod("m1", FALSE, FALSE, FALSE, {}, {"vendor"}),
       Mod("m2", TRUE, FALSE, TRUE, {}, {})} }

\* The orders in which read_dir can yield the entries of S.
Orders(S) ==
    {o \in [1..Cardinality(S) -> S] : \A i, j \in 1..Cardinality(S) : o[i] = o[j] => i = j}

\* Mutant of Contributes: the skip_mount marker is not looked at.
ContributesIgnoringSkip(m) == ~m.disabled

\* event.rs:163-176  the module is neither disabled nor marked skip_mount
Contributes(m) == ~m.disabled /\ ~m.skip

\* event.rs:178-182  the system lowerdir list, in read_dir order
RECURSIVE SystemLowerdir(_, _)
SystemLowerdir(root, order) ==
    IF order = <<>> THEN <<>>
    ELSE LET m == Head(order)
         IN (IF Contributes(m) /\ m.system THEN <<(<<root, m.name, "system">>)>> ELSE <<>>)
            \o SystemLowerdir(root, Tail(order))

\* event.rs:185-199  the lowerdir list of one tracked partition
RECURSIVE PartitionLowerdir(_, _, _)
PartitionLowerdir(root, order, part) ==
    IF order = <<>> THEN <<>>
    ELSE LET m == Head(order)
         IN (IF Contributes(m) /\ m.system /\ part \in m.sysParts
                THEN <<(<<root, m.name, "system", part>>)>> ELSE <<>>)
            \o (IF Contributes(m) /\ part \in m.topParts
                   THEN <<(<<root, m.name, part>>)>> ELSE <<>>)
            \o PartitionLowerdir(root, Tail(order), part)

\* Mutant of ShouldUseOverlayfs: either condition is enough.
ShouldUseOverlayfsEither(optIn, probe) == optIn \/ probe

\* event.rs:94-98  the opt-in marker exists and the kernel probe succeeds
ShouldUseOverlayfs(optIn, probe) == optIn /\ probe

ModEntries == 1..NumModEntries

\* The entries of the persistent overlay root: the root itself and, for each
\* partition, its directory with workdir and upperdir.
RwEntries == {"rw"} \cup {"system"} \cup Parts

\* What the walk and the label write do with one entry.
WalkOutcomes == {"set", "walk_err", "set_err"}

\* restore_syscon over the entries `order`, given what happens at each: an
\* entry the walk fails on is skipped, a failing label write ends the walk
\* with an error and leaves the rest as it was.
RECURSIVE RestoreSysconTree(_, _, _)
RestoreSysconTree(labels, order, outcome) ==
    IF order = <<>> THEN [labels |-> labels, ok |-> TRUE]
    ELSE LET e == Head(order)
         IN CASE outcome[e] = "set_err" -> [labels |-> labels, ok |-> FALSE]
              [] outcome[e] = "walk_err" ->
                    RestoreSysconTree(labels, Tail(order), outcome)
              [] OTHER ->
                    RestoreSysconTree([labels EXCEPT ![e] = SYSTEM_CON],
                                      Tail(order), outcome)

\* f with x mapped to v, x added to the domain if need be
Put(f, x, v) == [y \in DOMAIN f \cup {x} |-> IF y = x THEN v ELSE f[y]]

NoLabels == [e \in {} |-> SYSTEM_CON]

\* The locals of a run that has not begun.
FreshBoot(m) ==
    [pc |-> "start", log |-> <<>>, res |-> "none", marker0 |-> m,
     safeMode |-> FALSE, mode |-> "unread", optIn |-> FALSE, probe |-> FALSE,
     tierLog |-> <<>>, tres |-> "none", partsKnown |-> FALSE, partsExist |-> {},
     ovlTier |-> 0, ovlSys |-> <<>>, ovlParts |-> <<>>,
     copyFailed |-> FALSE, rebuilt |-> FALSE, metaRes |-> "none", readFailed |-> 0]

BootIdle ==
    /\ fs = [marker |-> FALSE, image |-> "absent", imgMods |-> {}, modules |-> {},
             modLabels |-> <<>>, rwLabels |-> NoLabels]
    /\ boot = FreshBoot(FALSE)
    /\ mounts = <<>>

\* A device at boot: the marker set or not, no image or the image a previous
\* boot built from the modules, any labels on the module tree, the overlay
\* root absent or present.
BootInit ==
    /\ \E mk \in BOOLEAN, img \in {"absent", "fs"}, mods \in ModuleConfigs,
          ml \in [ModEntries -> {SYSTEM_CON, ADB_CON}],
          rw \in {NoLabels, [e \in {"rw"} |-> ADB_CON]} :
          /\ fs = [marker |-> mk, image |-> img,
                   imgMods |-> (IF img = "fs" THEN mods ELSE {}),
                   modules |-> mods, modLabels |-> ml, rwLabels |-> rw]
          /\ boot = FreshBoot(mk)
    /\ mounts = <<>>

BootFrame == UNCHANGED <<watchVars, labelVars, modeVars, ovlVars, stageVars, mountVars>>

Log(b, ev) == [b EXCEPT !.log = Append(@, ev)]

\* on_post_data_fs returns `res` from position `at`.
Return(b, res) == [b EXCEPT !.pc = "done", !.res = res]

\* event.rs:312-398  Magisk ends the run with Ok; the log folder is set up
\* (create_dir(..).expect panics, run_command(..)? and File::create(..)?
\* return the error).
Prologue ==
    /\ boot.pc = "start"
    /\ \E outcome \in {"magisk", "panic", "err", "ok"} :
          boot' = CASE outcome = "magisk" -> Return(boot, "ok")
                    [] outcome = "panic" -> Return(boot, "panic")
                    [] outcome = "err" -> Return(boot, "err")
                    [] OTHER -> [boot EXCEPT !.pc = "safe_mode"]
    /\ UNCHANGED <<fs, mounts>>
    /\ BootFrame

\* event.rs:400-414  safe mode disables all modules, otherwise the common
\* post-fs-data.d scripts run; either failure is logged.
SafeModeCheck ==
    /\ boot.pc = "safe_mode"
    /\ \E safe \in BOOLEAN :
          boot' = [Log(boot, IF safe THEN "disable_all_modules" ELSE "common_scripts")
                      EXCEPT !.pc = "binaries", !.safeMode = safe]
    /\ UNCHANGED <<fs, mounts>>
    /\ BootFrame

\* event.rs:415-423  ensure_binaries()?, and when the update directory
\* exists handle_updated_modules()? and remove_dir_all(..)?
MergeUpdates ==
    /\ boot.pc = "binaries"
    /\ \E outcome \in {"binary_missing", "no_update", "merge_err", "merged"} :
          boot' = CASE outcome \in {"binary_missing", "merge_err"} -> Return(boot, "err")
                    [] outcome = "merged" -> [Log(boot, "merge") EXCEPT !.pc = "safe_return"]
                    [] OTHER -> [boot EXCEPT !.pc = "safe_return"]
    /\ UNCHANGED <<fs, mounts>>
    /\ BootFrame

\* Mutant of SafeModeReturn: after prune_modules the run goes on without the
\* restorecon call.
SafeModeReturnSkipsRestorecon ==
    /\ boot.pc = "safe_return"
    /\ boot' = IF boot.safeMode
                  THEN Return(Log(boot, "disable_all_modules"), "ok")
                  ELSE [Log(boot, "prune") EXCEPT !.pc = "sepolicy"]
    /\ UNCHANGED <<fs, mounts>>
    /\ BootFrame

\* event.rs:425-435  in safe mode disable all modules and return Ok;
\* otherwise prune_modules, its failure logged.
SafeModeReturn ==
    /\ boot.pc = "safe_return"
    /\ boot' = IF boot.safeMode
                  THEN Return(Log(boot, "disable_all_modules"), "ok")
                  ELSE [Log(boot, "prune") EXCEPT !.pc = "restorecon"]
    /\ UNCHANGED <<fs, mounts>>
    /\ BootFrame

\* restorecon.rs:78-95 called at event.rs:437-439: label the daemon, relabel
\* the module tree, create the overlay root if absent and relabel it; the
\* first two return their error, the rest is ignored; the caller logs.
Restorecon ==
    /\ boot.pc = "restorecon"
    /\ \E daemonOk \in BOOLEAN, mo \in [ModEntries -> WalkOutcomes],
          createOk \in BOOLEAN,
          ro \in [DOMAIN fs.rwLabels \cup {"rw"} -> WalkOutcomes],
          rest \in Orders(DOMAIN fs.rwLabels \ {"rw"}) :
          LET modOrder == [i \in ModEntries |-> i]
              mt == RestoreSysconTree(fs.modLabels, modOrder, mo)
              rw0 == IF "rw" \notin DOMAIN fs.rwLabels /\ createOk
                        THEN Put(fs.rwLabels, "rw", ADB_CON)
                        ELSE fs.rwLabels
              rt == RestoreSysconTree(rw0, <<"rw">> \o rest, ro)
          IN  fs' = IF ~daemonOk THEN fs
                    ELSE IF ~mt.ok THEN [fs EXCEPT !.modLabels = mt.labels]
                    ELSE [fs EXCEPT !.modLabels = mt.labels,
                                    !.rwLabels = IF "rw" \in DOMAIN rw0
                                                    THEN rt.labels ELSE rw0]
    /\ boot' = [Log(boot, "restorecon") EXCEPT !.pc = "sepolicy"]
    /\ UNCHANGED mounts
    /\ BootFrame

\* event.rs:441-444  load_sepolicy_rule, its failure logged
LoadSepolicyRule ==
    /\ boot.pc = "sepolicy"
    /\ boot' = [Log(boot, "sepolicy_rule") EXCEPT !.pc = "dispatch"]
    /\ UNCHANGED <<fs, mounts>>
    /\ BootFrame

\* The mode-file contents the runs are checked on.
BootContents ==
    {<<MOUNT_MODE_MAGIC>>, <<"ws", MOUNT_MODE_DISABLED, "ws">>,
     <<MOUNT_MODE_METAMODULE, "ws">>, <<"x">>}

StartTier(b, n) ==
    [b EXCEPT !.tierLog = Append(@, [tier |-> n, res |-> "running"]), !.ovlTier = n]

\* The tier being attempted returns `res` to the match in on_post_data_fs.
TierResult(b, res) == [b EXCEPT !.pc = "tier_ret", !.tres = res]

\* Mutant of Dispatch: the disabled arm is missing, so disabled falls into the
\* default arm.
DispatchDisabledAsDefault ==
    /\ boot.pc = "dispatch"
    /\ \E file \in {"missing", "unreadable", "file"}, content \in BootContents,
          lite \in BOOLEAN, optIn \in BOOLEAN, probe \in BOOLEAN :
          LET m == GetMountMode(file, content, lite)
              b == [boot EXCEPT !.mode = m]
          IN boot' =
               CASE m = MOUNT_MODE_METAMODULE -> [b EXCEPT !.pc = "meta_mount"]
                 [] OTHER ->
                      IF ShouldUseOverlayfs(optIn, probe)
                         THEN [StartTier(b, 1) EXCEPT !.pc = "t1_prepare",
                                                      !.optIn = optIn, !.probe = probe]
                         ELSE [b EXCEPT !.pc = "magic_mount",
                                        !.optIn = optIn, !.probe = probe]
    /\ UNCHANGED <<fs, mounts>>
    /\ BootFrame

\* event.rs:446-466,494-497  read the mode and choose the branch; in the
\* magic branch should_use_overlayfs chooses between the overlay tiers and
\* the plain magic mount.
Dispatch ==
    /\ boot.pc = "dispatch"
    /\ \E file \in {"missing", "unreadable", "file"}, content \in BootContents,
          lite \in BOOLEAN, optIn \in BOOLEAN, probe \in BOOLEAN :
          LET m == GetMountMode(file, content, lite)
              b == [boot EXCEPT !.mode = m]
          IN boot' =
               CASE m = MOUNT_MODE_DISABLED ->
                      [Log(b, "dispatch_done") EXCEPT !.pc = "stage_script"]
                 [] m = MOUNT_MODE_METAMODULE -> [b EXCEPT !.pc = "meta_mount"]
                 [] OTHER ->
                      IF ShouldUseOverlayfs(optIn, probe)
                         THEN [StartTier(b, 1) EXCEPT !.pc = "t1_prepare",
                                                      !.optIn = optIn, !.probe = probe]
                         ELSE [b EXCEPT !.pc = "magic_mount",
                                        !.optIn = optIn, !.probe = probe]
    /\ UNCHANGED <<fs, mounts>>
    /\ BootFrame

\* event.rs:454-459  the metamodule's mount script, its failure logged
MetamoduleMount ==
    /\ boot.pc = "meta_mount"
    /\ \E ok \in BOOLEAN :
          boot' = [Log(Log(boot, "meta_mount"), "dispatch_done") EXCEPT
                      !.pc = "stage_script",
                      !.metaRes = IF ok THEN "ok" ELSE "err"]
    /\ UNCHANGED <<fs, mounts>>
    /\ BootFrame

\* event.rs:226-239  ensure_clean_dir(..)?, and with no image the marker is
\* created (ensure_file_exists(..)?) to force the rebuild.
ImagePrepare ==
    /\ boot.pc = "t1_prepare"
    /\ \E outcome \in {"clean_dir_err", "flag_err", "ok"} :
          /\ outcome = "flag_err" => (fs.image = "absent" /\ ~fs.marker)
          /\ IF outcome = "ok"
                THEN /\ fs' = [fs EXCEPT !.marker = @ \/ fs.image = "absent"]
                     /\ boot' = [boot EXCEPT !.pc = "t1_rebuild"]
                ELSE /\ boot' = TierResult(boot, "err")
                     /\ UNCHANGED fs
    /\ UNCHANGED mounts
    /\ BootFrame

\* event.rs:241-280  with the marker set: remove the old image, size the
\* module tree, create and extend the image file, format it; every step
\* returns its error.
ImageRebuild ==
    /\ boot.pc = "t1_rebuild"
    /\ IF ~fs.marker
          THEN /\ boot' = [boot EXCEPT !.pc = "t1_mount"]
               /\ UNCHANGED fs
          ELSE \E outcome \in {"remove_err", "size_err", "create_err", "set_len_err",
                               "mkfs_err", "ok"} :
                  /\ outcome = "remove_err" => fs.image # "absent"
                  /\ fs' = CASE outcome = "remove_err" -> fs
                             [] outcome \in {"size_err", "create_err"} ->
                                   [fs EXCEPT !.image = "absent", !.imgMods = {}]
                             [] outcome \in {"set_len_err", "mkfs_err"} ->
                                   [fs EXCEPT !.image = "raw", !.imgMods = {}]
                             [] OTHER -> [fs EXCEPT !.image = "fs", !.imgMods = {}]
                  /\ boot' = IF outcome = "ok"
                                THEN [boot EXCEPT !.pc = "t1_mount", !.rebuilt = TRUE]
                                ELSE [TierResult(boot, "err") EXCEPT !.rebuilt = TRUE]
    /\ UNCHANGED mounts
    /\ BootFrame

\* event.rs:282-291  AutoMountExt4::try_new(..)? mounts the image, which an
\* unformatted file cannot be; the relabel of the mount point is ignored.
ImageMount ==
    /\ boot.pc = "t1_mount"
    /\ \E ok \in BOOLEAN :
          boot' = IF ok /\ fs.image = "fs"
                     THEN [Log(boot, "image_mounted") EXCEPT !.pc = "t1_copy"]
                     ELSE TierResult(boot, "err")
    /\ UNCHANGED <<fs, mounts>>
    /\ BootFrame

\* event.rs:293-305  with the marker set: sh -c "cp ..." is spawned and
\* waited for (both return their error), its exit status is dropped, and the
\* marker is removed, a failing removal ignored.
ImageCopy ==
    /\ boot.pc = "t1_copy"
    /\ IF ~fs.marker
          THEN /\ boot' = [boot EXCEPT !.pc = "ovl_read"]
               /\ UNCHANGED fs
          ELSE \E outcome \in {"spawn_err", "wait_err", "exit_nonzero", "ok"},
                  copied \in SUBSET fs.modules, rmOk \in BOOLEAN :
                  /\ outcome = "spawn_err" => copied = {}
                  /\ outcome = "ok" => copied = fs.modules
                  /\ IF outcome \in {"spawn_err", "wait_err"}
                        THEN /\ fs' = [fs EXCEPT !.imgMods = copied]
                             /\ boot' = [TierResult(boot, "err") EXCEPT !.copyFailed = TRUE]
                        ELSE /\ fs' = [fs EXCEPT !.imgMods = copied, !.marker = ~rmOk]
                             /\ boot' = [Log(boot, "rm_flag_tier1") EXCEPT
                                            !.pc = "ovl_read",
                                            !.copyFailed = (outcome # "ok")]
    /\ UNCHANGED mounts
    /\ BootFrame

\* defs::MODULE_DIR and defs::MODULE_MOUNT_DIR
MODULE_DIR == "modules"

MODULE_MOUNT_DIR == "modules_mount"

\* mount::mount_overlay: the overlay mount of one partition succeeds or fails.
MountOverlay(ms, rec, ok) == IF ok THEN Append(ms, rec) ELSE ms

\* event.rs:101-129  mount_partition: nothing for an empty lowerdir list;
\* otherwise, if the overlay root exists, the partition's upperdir and workdir
\* are created and labelled, every failure ignored, and the overlay is mounted.
MountPartition(name, lowerdir, labelOk, mountOk) ==
    IF lowerdir = <<>>
       THEN [fs |-> fs, mounts |-> mounts, ok |-> TRUE]
       ELSE LET rw == "rw" \in DOMAIN fs.rwLabels
                was == IF name \in DOMAIN fs.rwLabels THEN fs.rwLabels[name] ELSE ADB_CON
                labels == IF rw
                             THEN Put(fs.rwLabels, name, IF labelOk THEN SYSTEM_CON ELSE was)
                             ELSE fs.rwLabels
                rec == [part |-> name, tier |-> boot.ovlTier, lowerdir |-> lowerdir,
                        upper |-> rw,
                        clean |-> (\A e \in ModEntries : fs.modLabels[e] = SYSTEM_CON)
                                  /\ (\A e \in DOMAIN labels : labels[e] = SYSTEM_CON)]
            IN [fs |-> [fs EXCEPT !.rwLabels = labels],
                mounts |-> MountOverlay(mounts, rec, mountOk),
                ok |-> mountOk]

\* Mutant of OverlayDiscover: a module root that cannot be read is an error.
OverlayDiscoverReadErr ==
    /\ boot.pc = "ovl_read"
    /\ \E readOk \in BOOLEAN, pe \in SUBSET Parts,
          order \in Orders(IF boot.ovlTier = 1 THEN fs.imgMods ELSE fs.modules) :
          LET root == IF boot.ovlTier = 1 THEN MODULE_MOUNT_DIR ELSE MODULE_DIR
          IN /\ boot.partsKnown => pe = boot.partsExist
             /\ boot' = IF ~readOk
                           THEN [TierResult(boot, "err") EXCEPT !.readFailed = boot.ovlTier]
                           ELSE [boot EXCEPT
                                   !.pc = "ovl_system",
                                   !.partsKnown = TRUE,
                                   !.partsExist = pe,
                                   !.ovlSys = SystemLowerdir(root, order),
                                   !.ovlParts = [q \in pe |-> PartitionLowerdir(root, order, q)]]
    /\ UNCHANGED <<fs, mounts>>
    /\ BootFrame

\* event.rs:133-200  mount_systemlessly_overlayfs up to the mounts: a module
\* root that cannot be read is Ok(()); otherwise the lowerdir lists are built
\* for "system" and for every tracked partition whose mount point exists.
OverlayDiscover ==
    /\ boot.pc = "ovl_read"
    /\ \E readOk \in BOOLEAN, pe \in SUBSET Parts,
          order \in Orders(IF boot.ovlTier = 1 THEN fs.imgMods ELSE fs.modules) :
          LET root == IF boot.ovlTier = 1 THEN MODULE_MOUNT_DIR ELSE MODULE_DIR
          IN /\ boot.partsKnown => pe = boot.partsExist
             /\ boot' = IF ~readOk
                           THEN [TierResult(boot, "ok") EXCEPT !.readFailed = boot.ovlTier]
                           ELSE [boot EXCEPT
                                   !.pc = "ovl_system",
                                   !.partsKnown = TRUE,
                                   !.partsExist = pe,
                                   !.ovlSys = SystemLowerdir(root, order),
                                   !.ovlParts = [q \in pe |-> PartitionLowerdir(root, order, q)]]
    /\ UNCHANGED <<fs, mounts>>
    /\ BootFrame

\* event.rs:202-206  "system" is mounted first; its error is returned.
OverlayMountSystem ==
    /\ boot.pc = "ovl_system"
    /\ \E labelOk \in BOOLEAN, mountOk \in BOOLEAN :
          LET r == MountPartition("system", boot.ovlSys, labelOk, mountOk)
          IN /\ fs' = r.fs
             /\ mounts' = r.mounts
             /\ boot' = IF r.ok THEN [boot EXCEPT !.pc = "ovl_parts"]
                                ELSE TierResult(boot, "err")
    /\ BootFrame

\* event.rs:208-214  the other partitions, in the HashMap's order; the first
\* error is returned.
OverlayMountPartition ==
    /\ boot.pc = "ovl_parts"
    /\ \E q \in DOMAIN boot.ovlParts, labelOk \in BOOLEAN, mountOk \in BOOLEAN :
          LET r == MountPartition(q, boot.ovlParts[q], labelOk, mountOk)
              left == [x \in DOMAIN boot.ovlParts \ {q} |-> boot.ovlParts[x]]
          IN /\ fs' = r.fs
             /\ mounts' = r.mounts
             /\ boot' = IF r.ok THEN [boot EXCEPT !.ovlParts = left]
                                ELSE [TierResult(boot, "err") EXCEPT !.ovlParts = left]
    /\ BootFrame

\* event.rs:217  every partition is done: Ok(())
OverlayDone ==
    /\ boot.pc = "ovl_parts"
    /\ DOMAIN boot.ovlParts = {}
    /\ boot' = TierResult(boot, "ok")
    /\ UNCHANGED <<fs, mounts>>
    /\ BootFrame

SetLast(log, res) == [log EXCEPT ![Len(log)].res = res]

\* Mutant of TierReturn: a failed image tier falls back to magic mount at once.
TierReturnSkipDirect ==
    /\ boot.pc = "tier_ret"
    /\ LET b == [boot EXCEPT !.tierLog = SetLast(@, boot.tres), !.tres = "none",
                             !.ovlTier = 0, !.ovlSys = <<>>, !.ovlParts = <<>>]
       IN boot' = IF boot.tres = "ok"
                     THEN [Log(b, "dispatch_done") EXCEPT !.pc = "stage_script"]
                     ELSE [b EXCEPT !.pc = "magic_mount"]
    /\ UNCHANGED <<fs, mounts>>
    /\ BootFrame

\* event.rs:468-485  the match on a tier's result: Ok ends the dispatch, an
\* error of the image tier starts the direct tier on the module directory, an
\* error of the direct tier leads to magic mount.
TierReturn ==
    /\ boot.pc = "tier_ret"
    /\ LET b == [boot EXCEPT !.tierLog = SetLast(@, boot.tres), !.tres = "none",
                             !.ovlTier = 0, !.ovlSys = <<>>, !.ovlParts = <<>>]
       IN boot' = IF boot.tres = "ok"
                     THEN [Log(b, "dispatch_done") EXCEPT !.pc = "stage_script"]
                     ELSE IF boot.ovlTier = 1
                             THEN [StartTier(b, 2) EXCEPT !.pc = "ovl_read"]
                             ELSE [b EXCEPT !.pc = "magic_mount"]
    /\ UNCHANGED <<fs, mounts>>
    /\ BootFrame

\* Mutant of MagicMount: a failed magic mount is returned with `?`.
MagicMountFailureReturns ==
    /\ boot.pc = "magic_mount"
    /\ \E ok \in BOOLEAN :
          LET b == [boot EXCEPT
                      !.tierLog = Append(@, [tier |-> 3, res |-> IF ok THEN "ok" ELSE "err"])]
          IN boot' = IF ok THEN [Log(b, "dispatch_done") EXCEPT !.pc = "stage_script"]
                           ELSE Return(b, "err")
    /\ UNCHANGED <<fs, mounts>>
    /\ BootFrame

\* event.rs:486-489,498-501  magic_mount::magic_mount(), its failure logged
MagicMount ==
    /\ boot.pc = "magic_mount"
    /\ \E ok \in BOOLEAN :
          boot' = [Log(boot, "dispatch_done") EXCEPT
                      !.pc = "stage_script",
                      !.tierLog = Append(@, [tier |-> 3, res |-> IF ok THEN "ok" ELSE "err"])]
    /\ UNCHANGED <<fs, mounts>>
    /\ BootFrame

\* event.rs:508-510  the modules' post-fs-data scripts, failure logged
StageScript ==
    /\ boot.pc = "stage_script"
    /\ boot' = [Log(boot, "stage_script") EXCEPT !.pc = "stage_lua"]
    /\ UNCHANGED <<fs, mounts>>
    /\ BootFrame

\* event.rs:511-514  the post-fs-data lua hook, failure logged
StageLua ==
    /\ boot.pc = "stage_lua"
    /\ boot' = [Log(boot, "stage_lua") EXCEPT !.pc = "system_prop"]
    /\ UNCHANGED <<fs, mounts>>
    /\ BootFrame

\* event.rs:515-518  load_system_prop, failure logged
LoadSystemProp ==
    /\ boot.pc = "system_prop"
    /\ boot' = [Log(boot, "system_prop") EXCEPT !.pc = "rm_flag"]
    /\ UNCHANGED <<fs, mounts>>
    /\ BootFrame

\* Mutant of RemoveUpdateFlag: the removal is missing.
RemoveUpdateFlagNever ==
    /\ boot.pc = "rm_flag"
    /\ boot' = [boot EXCEPT !.pc = "post_mount"]
    /\ UNCHANGED <<fs, mounts>>
    /\ BootFrame

\* event.rs:520-521  let _ = fs::remove_file(module_update_flag)
RemoveUpdateFlag ==
    /\ boot.pc = "rm_flag"
    /\ \E rmOk \in BOOLEAN :
          fs' = [fs EXCEPT !.marker = @ /\ ~rmOk]
    /\ boot' = [Log(boot, "rm_flag") EXCEPT !.pc = "post_mount"]
    /\ UNCHANGED mounts
    /\ BootFrame

\* event.rs:523  run_stage("post-mount", superkey, true)
PostMountStage ==
    /\ boot.pc = "post_mount"
    /\ boot' = [Log(boot, "post_mount") EXCEPT !.pc = "chdir"]
    /\ UNCHANGED <<fs, mounts>>
    /\ BootFrame

\* event.rs:525-527  set_current_dir("/")?, then Ok(())
ChdirAndReturn ==
    /\ boot.pc = "chdir"
    /\ \E ok \in BOOLEAN : boot' = Return(boot, IF ok THEN "ok" ELSE "err")
    /\ UNCHANGED <<fs, mounts>>
    /\ BootFrame

\* The device boots again, after the run has ended or in the middle of it (the
\* process is killed, the power is lost): the files are as they were left,
\* nothing is mounted, and on_post_data_fs starts anew.
NextBoot ==
    /\ boot.pc # "start"
    /\ boot' = FreshBoot(fs.marker)
    /\ mounts' = <<>>
    /\ UNCHANGED fs
    /\ BootFrame

BootNext ==
    \/ Prologue
    \/ SafeModeCheck
    \/ MergeUpdates
    \/ SafeModeReturn
    \/ Restorecon
    \/ LoadSepolicyRule
    \/ Dispatch
    \/ MetamoduleMount
    \/ ImagePrepare
    \/ ImageRebuild
    \/ ImageMount
    \/ ImageCopy
    \/ OverlayDiscover
    \/ OverlayMountSystem
    \/ OverlayMountPartition
    \/ OverlayDone
    \/ TierReturn
    \/ MagicMount
    \/ StageScript
    \/ StageLua
    \/ LoadSystemProp
    \/ RemoveUpdateFlag
    \/ PostMountStage
    \/ ChdirAndReturn
    \/ NextBoot

\* ------------------------------------------- mount_systemlessly_overlayfs

\* defs::EXTENDED_PARTITIONS: the tracked partitions the discovery is checked
\* with; "system" is not one of them, it is handled on its own.
EXTENDED_PARTITIONS == {"vendor", "product"}

\* An entry of the module directory: a directory or not, its marker files and
\* the subtrees of it that are directories.  The entry's name is its position
\* in the order read_dir yields the entries in.
Entry(dir, dis, skip, sys, sp, tp) ==
    [isDir |-> dir, disabled |-> dis, skip |-> skip, system |-> sys,
     sysParts |-> sp, topParts |-> tp]

\* The kinds of entries the discovery is checked with: a plain file, a
\* disabled module, a module with skip_mount, and enabled modules with every
\* mix of system/, system/$PART and $PART.
EntryShapes ==
    { Entry(FALSE, FALSE, FALSE, FALSE, {}, {}),
      Entry(TRUE, TRUE, FALSE, TRUE, {"vendor"}, {"vendor"}),
      Entry(TRUE, FALSE, TRUE, TRUE, {"vendor"}, {"product"}),
      Entry(TRUE, FALSE, FALSE, TRUE, {"vendor"}, {"vendor", "product"}),
      Entry(TRUE, FALSE, FALSE, FALSE, {}, {"product"}),
      Entry(TRUE, FALSE, FALSE, FALSE, {}, {}),
      Entry(TRUE, FALSE, FALSE, TRUE, {}, {}) }

\* The locals of a call that has not read the directory yet.
FreshOvl(root, entries, pe, rw) ==
    [pc |-> "start", root |-> root, entries |-> entries, partsExist |-> pe,
     rwExists |-> rw, idx |-> 0, system_lowerdir |-> <<>>,
     partition_lowerdir |-> <<>>, todo |-> {}, calls |-> <<>>,
     mounted |-> <<>>, res |-> "none"]

OvlIdle == ovl = FreshOvl(MODULE_DIR, <<>>, {}, FALSE)

\* A call on any module root: any entries in any order, any of the tracked
\* partitions present on the device, the overlay root present or not.
OvlInit ==
    \E root \in {MODULE_DIR, MODULE_MOUNT_DIR},
       entries \in [1..NumOvlEntries -> EntryShapes],
       pe \in SUBSET EXTENDED_PARTITIONS, rw \in BOOLEAN :
       ovl = FreshOvl(root, entries, pe, rw)

OvlFrame == UNCHANGED <<watchVars, labelVars, modeVars, bootVars, stageVars, mountVars>>

\* event.rs:150-156  a tracked partition gets a list only if /$PART is a directory
TrackedExisting(pe) == {part \in EXTENDED_PARTITIONS : part \in pe}

\* Mutant of PartitionLayers: $PART is pushed before system/$PART.
PartitionLayersTopFirst(root, name, m, part) ==
    (IF part \in m.topParts THEN <<(<<root, name, part>>)>> ELSE <<>>)
    \o (IF m.system /\ part \in m.sysParts
           THEN <<(<<root, name, "system", part>>)>> ELSE <<>>)

\* event.rs:186-198  what one module adds to the list of one partition:
\* system/$PART if it is a directory, then $PART if it is a directory
PartitionLayers(root, name, m, part) ==
    (IF m.system /\ part \in m.sysParts
        THEN <<(<<root, name, "system", part>>)>> ELSE <<>>)
    \o (IF part \in m.topParts THEN <<(<<root, name, part>>)>> ELSE <<>>)

\* Mutant of MountPartitionCall: the upperdir and workdir are prepared before
\* the lowerdir list is looked at.
MountPartitionCallDirsFirst(name, lowerdir, rw, mountOk) ==
    [part |-> name, lowerdir |-> lowerdir,
     mkdirs |-> IF rw THEN 2 ELSE 0, setcons |-> IF rw THEN 3 ELSE 0,
     overlays |-> IF lowerdir = <<>> THEN 0 ELSE 1,
     upper |-> rw /\ lowerdir # <<>>,
     ok |-> lowerdir = <<>> \/ mountOk]

\* event.rs:101-129  one call of mount_partition, as the system calls it
\* makes: none for an empty lowerdir list; otherwise, if the overlay root
\* exists, two create_dir_all and three setsyscon, and one mount_overlay whose
\* result is the call's result.
MountPartitionCall(name, lowerdir, rw, mountOk) ==
    IF lowerdir = <<>>
       THEN [part |-> name, lowerdir |-> lowerdir, mkdirs |-> 0, setcons |-> 0,
             overlays |-> 0, upper |-> FALSE, ok |-> TRUE]
       ELSE [part |-> name, lowerdir |-> lowerdir,
             mkdirs |-> IF rw THEN 2 ELSE 0, setcons |-> IF rw THEN 3 ELSE 0,
             overlays |-> 1, upper |-> rw, ok |-> mountOk]

\* The overlay mounts in place after the call `c`.
Mounted(ms, c) ==
    IF c.overlays = 0 THEN ms
    ELSE MountOverlay(ms, [part |-> c.part, lowerdir |-> c.lowerdir, upper |-> c.upper], c.ok)

\* event.rs:135-156  read_dir: a module root that cannot be read ends the call
\* with Ok(()); otherwise every tracked partition whose mount point exists
\* gets an empty list.
OvlReadDir ==
    /\ ovl.pc = "start"
    /\ \E readOk \in BOOLEAN :
          ovl' = IF ~readOk
                    THEN [ovl EXCEPT !.pc = "done", !.res = "ok"]
                    ELSE [ovl EXCEPT
                            !.pc = "scan",
                            !.partition_lowerdir =
                                [part \in TrackedExisting(ovl.partsExist) |-> <<>>]]
    /\ OvlFrame

\* event.rs:158-200  one turn of the loop over the entries: an entry that is
\* not a directory, a disabled module and a module with skip_mount add
\* nothing; any other module adds its system/ to the system list and its
\* layers to the list of every partition that has one.
OvlScanEntry ==
    /\ ovl.pc = "scan"
    /\ ovl.idx < Len(ovl.entries)
    /\ LET name == ovl.idx + 1
           m == ovl.entries[name]
       IN ovl' = IF ~m.isDir \/ ~Contributes(m)
                    THEN [ovl EXCEPT !.idx = name]
                    ELSE [ovl EXCEPT
                            !.idx = name,
                            !.system_lowerdir =
                                IF m.system
                                   THEN Append(@, <<ovl.root, name, "system">>)
                                   ELSE @,
                            !.partition_lowerdir =
                                [part \in DOMAIN @ |->
                                    @[part] \o PartitionLayers(ovl.root, name, m, part)]]
    /\ OvlFrame

\* Mutant of OvlMountSystem: a failed system mount is logged and the other
\* partitions are mounted all the same.
OvlMountSystemGoesOn ==
    /\ ovl.pc = "scan"
    /\ ovl.idx = Len(ovl.entries)
    /\ \E mountOk \in BOOLEAN :
          LET c == MountPartitionCall("system", ovl.system_lowerdir, ovl.rwExists, mountOk)
          IN ovl' = [ovl EXCEPT !.calls = Append(@, c),
                                !.mounted = Mounted(@, c),
                                !.pc = "parts",
                                !.todo = DOMAIN ovl.partition_lowerdir]
    /\ OvlFrame

\* event.rs:202-206  "system" is mounted first; its error ends the call.
OvlMountSystem ==
    /\ ovl.pc = "scan"
    /\ ovl.idx = Len(ovl.entries)
    /\ \E mountOk \in BOOLEAN :
          LET c == MountPartitionCall("system", ovl.system_lowerdir, ovl.rwExists, mountOk)
              o == [ovl EXCEPT !.calls = Append(@, c), !.mounted = Mounted(@, c)]
          IN ovl' = IF c.ok
                       THEN [o EXCEPT !.pc = "parts",
                                      !.todo = DOMAIN ovl.partition_lowerdir]
                       ELSE [o EXCEPT !.pc = "done", !.res = "err"]
    /\ OvlFrame

\* event.rs:208-214  the other partitions, in the order the HashMap yields
\* them; the first error ends the call.
OvlMountPartition ==
    /\ ovl.pc = "parts"
    /\ \E part \in ovl.todo, mountOk \in BOOLEAN :
          LET c == MountPartitionCall(part, ovl.partition_lowerdir[part],
                                      ovl.rwExists, mountOk)
              o == [ovl EXCEPT !.calls = Append(@, c), !.mounted = Mounted(@, c),
                               !.todo = @ \ {part}]
          IN ovl' = IF c.ok THEN o ELSE [o EXCEPT !.pc = "done", !.res = "err"]
    /\ OvlFrame

\* event.rs:217  every partition is mounted: Ok(())
OvlReturn ==
    /\ ovl.pc = "parts"
    /\ ovl.todo = {}
    /\ ovl' = [ovl EXCEPT !.pc = "done", !.res = "ok"]
    /\ OvlFrame

OvlNext ==
    \/ OvlReadDir
    \/ OvlScanEntry
    \/ OvlMountSystem
    \/ OvlMountPartition
    \/ OvlReturn

\* ---------------------------------------------------------------- run_stage

\* The entry points that reach run_stage and the stage each passes to it:
\* on_post_data_fs ("post-mount", blocking), on_services ("service") and
\* on_boot_completed ("boot-completed").
StageCallers == {"on_post_data_fs", "on_services", "on_boot_completed"}

StageOf(caller) ==
    CASE caller = "on_post_data_fs" -> "post-mount"
      [] caller = "on_services" -> "service"
      [] OTHER -> "boot-completed"

\* The four hook steps of run_stage, in the order of the source.
StageSteps == <<"metamodule_script", "common_scripts", "module_scripts", "lua">>

FreshStage(caller, magisk, safe) ==
    [caller |-> caller,
     pc |-> IF caller = "on_post_data_fs" THEN "pdfs_start" ELSE "rs_start",
     magisk |-> magisk, safe |-> safe, safeSeen |-> FALSE,
     log |-> <<>>, res |-> "none"]

StageIdle == stg = [FreshStage("on_services", FALSE, FALSE) EXCEPT !.pc = "idle"]

\* An entry point is triggered on a device with or without Magisk, in safe
\* mode or not.
StageInit ==
    \E caller \in StageCallers, magisk \in BOOLEAN, safe \in BOOLEAN :
       stg = FreshStage(caller, magisk, safe)

StageFrame == UNCHANGED <<watchVars, labelVars, modeVars, bootVars, ovlVars, mountVars>>

\* One thing done by `by` (on_post_data_fs itself, or run_stage), and whether
\* it succeeded.
Did(s, by, ev, ok) == [s EXCEPT !.log = Append(@, [by |-> by, ev |-> ev, ok |-> ok])]

\* event.rs:311-398  on_post_data_fs up to the safe-mode test: Magisk ends it
\* with Ok; a log folder that cannot be set up ends it with an error.
PdfsPrologue ==
    /\ stg.pc = "pdfs_start"
    /\ \E logOk \in BOOLEAN :
          stg' = IF stg.magisk THEN [stg EXCEPT !.pc = "done", !.res = "ok"]
                 ELSE IF ~logOk THEN [stg EXCEPT !.pc = "done", !.res = "err"]
                 ELSE [stg EXCEPT !.pc = "pdfs_safe"]
    /\ StageFrame

\* event.rs:398-413  in safe mode every module is disabled and the common
\* post-fs-data.d scripts are skipped; otherwise they are run.
PdfsSafeModeCheck ==
    /\ stg.pc = "pdfs_safe"
    /\ \E ok \in BOOLEAN :
          stg' = [Did([stg EXCEPT !.safeSeen = stg.safe], "on_post_data_fs",
                      IF stg.safe THEN "disable_all_modules" ELSE "common_scripts", ok)
                    EXCEPT !.pc = "pdfs_merge"]
    /\ StageFrame

\* event.rs:414-431  ensure_binaries and the merge of the update directory
\* (either error ends the call); then, in safe mode, every module is disabled
\* once more and the call returns Ok.
PdfsMergeUpdates ==
    /\ stg.pc = "pdfs_merge"
    /\ \E mergeOk \in BOOLEAN, ok \in BOOLEAN :
          stg' = IF ~mergeOk THEN [stg EXCEPT !.pc = "done", !.res = "err"]
                 ELSE IF stg.safe
                         THEN [Did(stg, "on_post_data_fs", "disable_all_modules", ok)
                                 EXCEPT !.pc = "done", !.res = "ok"]
                         ELSE [stg EXCEPT !.pc = "pdfs_mount"]
    /\ StageFrame

\* event.rs:433-523  prune, restorecon, the mount dispatch, the post-fs-data
\* scripts of the modules and the lua hook, system.prop, the update flag; no
\* failure ends the call; then run_stage("post-mount") is called.
PdfsMountAndScripts ==
    /\ stg.pc = "pdfs_mount"
    /\ \E mountOk \in BOOLEAN, scriptsOk \in BOOLEAN :
          stg' = [Did(Did(Did(stg, "on_post_data_fs", "mount_dispatch", mountOk),
                          "on_post_data_fs", "module_scripts", scriptsOk),
                      "on_post_data_fs", "lua", scriptsOk)
                    EXCEPT !.pc = "rs_start"]
    /\ StageFrame

\* event.rs:531-536  run_stage: Magisk detected, nothing is done.
RunStageMagiskCheck ==
    /\ stg.pc = "rs_start"
    /\ stg' = [stg EXCEPT !.pc = IF stg.magisk THEN "rs_ret" ELSE "rs_safe"]
    /\ StageFrame

\* Mutant of RunStageSafeMode: the modules are disabled and the steps run
\* all the same.
RunStageSafeModeGoesOn ==
    /\ stg.pc = "rs_safe"
    /\ \E ok \in BOOLEAN :
          stg' = IF stg.safe
                    THEN [Did([stg EXCEPT !.safeSeen = TRUE], "run_stage",
                              "disable_all_modules", ok)
                            EXCEPT !.pc = "rs_step1"]
                    ELSE [stg EXCEPT !.pc = "rs_step1"]
    /\ StageFrame

\* event.rs:538-544  safe mode: disable_all_modules, its failure logged, and
\* run_stage returns.
RunStageSafeMode ==
    /\ stg.pc = "rs_safe"
    /\ \E ok \in BOOLEAN :
          stg' = IF stg.safe
                    THEN [Did([stg EXCEPT !.safeSeen = TRUE], "run_stage",
                              "disable_all_modules", ok)
                            EXCEPT !.pc = "rs_ret"]
                    ELSE [stg EXCEPT !.pc = "rs_step1"]
    /\ StageFrame

\* Step n of run_stage succeeds or fails; a failure is logged and the next
\* step follows.
RunStageStep(n) ==
    /\ stg.pc = IF n = 1 THEN "rs_step1" ELSE IF n = 2 THEN "rs_step2"
                ELSE IF n = 3 THEN "rs_step3" ELSE "rs_step4"
    /\ \E ok \in BOOLEAN :
          stg' = [Did(stg, "run_stage", StageSteps[n], ok)
                    EXCEPT !.pc = IF n = 1 THEN "rs_step2" ELSE IF n = 2 THEN "rs_step3"
                                  ELSE IF n = 3 THEN "rs_step4" ELSE "rs_ret"]
    /\ StageFrame

\* Mutant of RunStageMetamodule: a failing metamodule script ends run_stage.
RunStageMetamoduleAborts ==
    /\ stg.pc = "rs_step1"
    /\ \E ok \in BOOLEAN :
          stg' = [Did(stg, "run_stage", StageSteps[1], ok)
                    EXCEPT !.pc = IF ok THEN "rs_step2" ELSE "rs_ret"]
    /\ StageFrame

\* event.rs:546-549  metamodule::exec_stage_script
RunStageMetamodule == RunStageStep(1)

\* event.rs:551-553  module::exec_common_scripts
RunStageCommonScripts == RunStageStep(2)

\* event.rs:554-556  module::exec_stage_script
RunStageModuleScripts == RunStageStep(3)

\* event.rs:557-559  module::exec_stage_lua
RunStageLua == RunStageStep(4)

\* run_stage has returned to its caller: on_post_data_fs goes on to chdir
\* (event.rs:525-527, its error is returned), on_services returns Ok
\* (event.rs:562-567), on_boot_completed spawns the uid monitor and returns
\* Ok, or panics if the spawn fails (event.rs:569-598).
RunStageReturn ==
    /\ stg.pc = "rs_ret"
    /\ \E ok \in BOOLEAN :
          stg' = CASE stg.caller = "on_services" ->
                        [stg EXCEPT !.pc = "done", !.res = "ok"]
                   [] stg.caller = "on_post_data_fs" ->
                        [stg EXCEPT !.pc = "done", !.res = IF ok THEN "ok" ELSE "err"]
                   [] OTHER ->
                        [Did(stg, "on_boot_completed", "run_uid_monitor", ok)
                           EXCEPT !.pc = "done", !.res = IF ok THEN "ok" ELSE "panic"]
    /\ StageFrame

StageNext ==
    \/ PdfsPrologue
    \/ PdfsSafeModeCheck
    \/ PdfsMergeUpdates
    \/ PdfsMountAndScripts
    \/ RunStageMagiskCheck
    \/ RunStageSafeMode
    \/ RunStageMetamodule
    \/ RunStageCommonScripts
    \/ RunStageModuleScripts
    \/ RunStageLua
    \/ RunStageReturn

\* ----------------------------------------------------------------- mount.rs

\* The sources bind_mount is called with and the destinations of both
\* primitives.
MountSources == {"modules/a/system/app", "worker/system"}

MountDests == {"/system/app", "/vendor", "worker"}

\* A call that has not made its first system call: `shared` says whether a
\* mount attached at the destination starts out shared, which it does under
\* a shared parent mount or, for a bind, from a shared source.
FreshMount(fn, from, to, shared) ==
    [fn |-> fn, from |-> from, to |-> to, shared |-> shared,
     pc |-> IF fn = "bind_mount" THEN "open_tree" ELSE "fsopen",
     syscalls |-> <<>>, mnt |-> "none", prop |-> "none", res |-> "none"]

MountIdle == lm = [FreshMount("bind_mount", "worker/system", "worker", FALSE)
                     EXCEPT !.pc = "idle"]

MountInit ==
    \E fn \in {"bind_mount", "mount_tmpfs"}, from \in MountSources,
       to \in MountDests, shared \in BOOLEAN :
       lm = FreshMount(fn, IF fn = "bind_mount" THEN from ELSE "APatch", to, shared)

MountFrame == UNCHANGED <<watchVars, labelVars, modeVars, bootVars, ovlVars, stageVars>>

\* The system call `name` has been made and has succeeded or failed.
Sys(m, name, ok) == [m EXCEPT !.syscalls = Append(@, [name |-> name, ok |-> ok])]

\* A mount of kind `kind` is attached at the destination; nothing has changed
\* its propagation yet.
Attach(m, kind) ==
    [m EXCEPT !.mnt = kind, !.prop = IF m.shared THEN "shared" ELSE "private"]

\* `?` on a failed system call, or the final Ok(()).
MountReturn(m, res) == [m EXCEPT !.pc = "done", !.res = res]

\* mount.rs:21-27  open_tree(OPEN_TREE_CLONE | AT_RECURSIVE): Ok leads to
\* move_mount, anything else to the classic mount call.
BindOpenTree ==
    /\ lm.pc = "open_tree"
    /\ \E ok \in BOOLEAN :
          lm' = [Sys(lm, "open_tree", ok)
                   EXCEPT !.pc = IF ok THEN "bind_move_mount" ELSE "bind_mount_classic"]
    /\ MountFrame

\* Mutant of BindMoveMount: a failed move_mount leads to the classic mount call.
BindMoveMountFallsBack ==
    /\ lm.pc = "bind_move_mount"
    /\ \E ok \in BOOLEAN :
          lm' = IF ok THEN MountReturn(Attach(Sys(lm, "move_mount", ok), "bind"), "ok")
                      ELSE [Sys(lm, "move_mount", ok) EXCEPT !.pc = "bind_mount_classic"]
    /\ MountFrame

\* mount.rs:28-36,47  move_mount of the cloned tree; its error is returned,
\* its success is followed by Ok(()).
BindMoveMount ==
    /\ lm.pc = "bind_move_mount"
    /\ \E ok \in BOOLEAN :
          lm' = IF ok THEN MountReturn(Attach(Sys(lm, "move_mount", ok), "bind"), "ok")
                      ELSE MountReturn(Sys(lm, "move_mount", ok), "err")
    /\ MountFrame

\* mount.rs:37-47  mount(MS_BIND | MS_REC); its error is returned, its success
\* is followed by Ok(()).
BindMountClassic ==
    /\ lm.pc = "bind_mount_classic"
    /\ \E ok \in BOOLEAN :
          lm' = IF ok THEN MountReturn(Attach(Sys(lm, "mount", ok), "bind"), "ok")
                      ELSE MountReturn(Sys(lm, "mount", ok), "err")
    /\ MountFrame

\* mount.rs:85-86,99  fsopen("tmpfs"): Ok leads to the fsconfig calls,
\* anything else to the classic mount call.
TmpfsFsopen ==
    /\ lm.pc = "fsopen"
    /\ \E ok \in BOOLEAN :
          lm' = [Sys(lm, "fsopen", ok)
                   EXCEPT !.pc = IF ok THEN "fsconfig" ELSE "tmpfs_mount_classic"]
    /\ MountFrame

\* mount.rs:87-90  fsconfig_set_string, fsconfig_create and fsmount, each
\* followed by `?`: the first that fails ends the call with its error.
TmpfsConfigure ==
    /\ lm.pc = "fsconfig"
    /\ \E failAt \in 0..3 :
          LET a == Sys(lm, "fsconfig_set_string", failAt # 1)
              b == Sys(a, "fsconfig_create", failAt # 2)
              c == Sys(b, "fsmount", failAt # 3)
          IN lm' = CASE failAt = 1 -> MountReturn(a, "err")
                     [] failAt = 2 -> MountReturn(b, "err")
                     [] failAt = 3 -> MountReturn(c, "err")
                     [] OTHER -> [c EXCEPT !.pc = "tmpfs_move_mount"]
    /\ MountFrame

\* mount.rs:91-97  move_mount of the new tmpfs; its error is returned.
TmpfsMoveMount ==
    /\ lm.pc = "tmpfs_move_mount"
    /\ \E ok \in BOOLEAN :
          lm' = IF ok THEN [Attach(Sys(lm, "move_mount", ok), "tmpfs")
                              EXCEPT !.pc = "mount_change"]
                      ELSE MountReturn(Sys(lm, "move_mount", ok), "err")
    /\ MountFrame

\* mount.rs:99-107  mount("tmpfs"); its error is returned.
TmpfsMountClassic ==
    /\ lm.pc = "tmpfs_mount_classic"
    /\ \E ok \in BOOLEAN :
          lm' = IF ok THEN [Attach(Sys(lm, "mount", ok), "tmpfs")
                              EXCEPT !.pc = "mount_change"]
                      ELSE MountReturn(Sys(lm, "mount", ok), "err")
    /\ MountFrame

\* mount.rs:109-111  mount_change(PRIVATE) on the destination; its error is
\* returned and leaves the mount as it was attached.
TmpfsMountChange ==
    /\ lm.pc = "mount_change"
    /\ \E ok \in BOOLEAN :
          lm' = IF ok THEN MountReturn([Sys(lm, "mount_change", ok)
                                          EXCEPT !.prop = "private"], "ok")
                      ELSE MountReturn(Sys(lm, "mount_change", ok), "err")
    /\ MountFrame

MountNext ==
    \/ BindOpenTree
    \/ BindMoveMount
    \/ BindMountClassic
    \/ TmpfsFsopen
    \/ TmpfsConfigure
    \/ TmpfsMoveMount
    \/ TmpfsMountClassic
    \/ TmpfsMountChange

\* ------------------------------------------------------------ specifications

Others == OvlIdle /\ StageIdle /\ MountIdle

InitWatch == WatchIdle /\ LabelIdle /\ ModeIdle /\ BootIdle /\ Others

SpecWatch == InitWatch /\ [][WatchNext]_vars

\* The threads of the listener are scheduled: a step of the main loop or of
\* the signal thread that stays possible is taken.  Events and signals are
\* under no obligation to arrive.
WatchFairness ==
    /\ WF_vars(MainTakeStart)
    /\ WF_vars(MainTimerElapsed)
    /\ WF_vars(MainTakeFire)
    /\ WF_vars(MainRefreshBegin)
    /\ WF_vars(MainRefreshEnd)
    /\ WF_vars(SignalTake)
    /\ WF_vars(SignalRefreshBegin)
    /\ WF_vars(SignalRefreshEnd)

SpecWatchFair == InitWatch /\ [][WatchNext]_vars /\ WatchFairness

InitLabel == LabelInit /\ WatchIdle /\ ModeIdle /\ BootIdle /\ Others

SpecLabel == InitLabel /\ [][LabelNext]_vars

InitMode == ModeInit /\ WatchIdle /\ LabelIdle /\ BootIdle /\ Others

InitBoot == BootInit /\ WatchIdle /\ LabelIdle /\ ModeIdle /\ Others

SpecBoot == InitBoot /\ [][BootNext]_vars

SpecMode == InitMode /\ [][ModeNext]_vars

InitOverlay ==
    OvlInit /\ WatchIdle /\ LabelIdle /\ ModeIdle /\ BootIdle /\ StageIdle /\ MountIdle

SpecOverlay == InitOverlay /\ [][OvlNext]_vars

InitStage ==
    StageInit /\ WatchIdle /\ LabelIdle /\ ModeIdle /\ BootIdle /\ OvlIdle /\ MountIdle

SpecStage == InitStage /\ [][StageNext]_vars

InitMount ==
    MountInit /\ WatchIdle /\ LabelIdle /\ ModeIdle /\ BootIdle /\ OvlIdle /\ StageIdle

SpecMount == InitMount /\ [][MountNext]_vars

\* ------------------------------------------------------------------ claims

\* C2 (as stated): a start posted while a window is pending, that is, between
\* the first start being taken and its fire being handled, starts no timer.
C2_StartInPendingWindowStartsNoTimer ==
    \A i \in 1..Len(timerLog) : ~timerLog[i].inWindow

\* C2 (amended): a start posted during the one-second sleep, that is, between
\* the first start being taken and the fire being posted, starts no timer, and
\* every timer started leads to exactly one debounce-triggered refresh call.
C2_StartsInSleepCoalesced ==
    /\ \A i \in 1..Len(timerLog) : ~timerLog[i].inSleep
    /\ Len(timerLog) = nDebRefresh + (IF wpc = "sleep" \/ debounce THEN 1 ELSE 0)

\* Three starts, two of them posted during the first one's sleep, all consumed
\* and answered by a single refresh.
C2_Witness ==
    /\ sent = MaxStarts
    /\ sent >= 2
    /\ chan = <<>>
    /\ wpc = "recv"
    /\ ~debounce
    /\ Len(timerLog) = 1
    /\ nDebRefresh = 1

\* C3: the debounce-triggered and the shutdown-triggered refresh are never in
\* progress together, and the signal thread makes exactly one refresh call,
\* which leaves the count of debounce-triggered calls as it is.
C3_RefreshesLinearized ==
    /\ ~(wpc = "refreshing" /\ spc = "refreshing")
    /\ nSigRefresh <= 1
    /\ (spc \in {"lock", "refreshing", "done"}) => nSigRefresh = 1
    /\ Len(timerLog) = nDebRefresh + (IF wpc = "sleep" \/ debounce THEN 1 ELSE 0)

\* The signal thread waits for the mutex while the main loop refreshes.
C3_Witness ==
    /\ wpc = "refreshing"
    /\ spc = "lock"
    /\ nSignals = MaxSignals

AllSystem(t) == \A e \in DOMAIN t : t[e] = SYSTEM_CON

\* C7 (as stated): restore_syscon writes an entry only where its label differs
\* from the system label, and on a tree already labelled it reads every entry
\* once and writes nothing.
C7_ReadBeforeWrite ==
    (lfn = "restore_syscon" /\ lpc = "done" /\ lres = "ok") =>
        /\ \A e \in wrote : tree0[e] # SYSTEM_CON
        /\ (AllSystem(tree0) /\ walked = TreeEntries) =>
               (reads = TreeSize /\ writes = 0)

\* C7 (amended): restore_syscon reads no label and calls the label write on
\* every entry the walk yields, so on a tree already labelled it leaves every
\* label as it was with as many writes as entries; restore_syscon_if_unlabeled
\* reads each entry once and writes only an "unlabeled" or empty label.
C7_WritesEveryEntry ==
    /\ lfn = "restore_syscon" =>
          /\ reads = 0
          /\ wrote = walked
          /\ writes = Cardinality(walked)
          /\ (AllSystem(tree0) => tree = tree0)
          /\ (lpc = "done" /\ lres = "ok") => \A e \in walked : tree[e] = SYSTEM_CON
    /\ lfn = "restore_syscon_if_unlabeled" =>
          /\ reads = Cardinality(walked)
          /\ writes = Cardinality(wrote)
          /\ \A e \in wrote : tree0[e] \in {UNLABEL_CON, ""}
          /\ \A e \in TreeEntries \ wrote : tree[e] = tree0[e]

\* A second pass of restore_syscon over a tree the first pass labelled: every
\* entry is written again.
C7_Witness ==
    /\ lfn = "restore_syscon"
    /\ passes = 2
    /\ lpc = "done"
    /\ lres = "ok"
    /\ AllSystem(tree0)
    /\ walked = TreeEntries
    /\ writes = TreeSize

WsRun(n) == [i \in 1..n |-> "ws"]

\* The mode name the file holds between leading and trailing whitespace, if any.
Recognised(w) ==
    /\ modeFile = "file"
    /\ \E i \in 0..Len(modeContent), j \in 0..Len(modeContent) :
          modeContent = WsRun(i) \o <<w>> \o WsRun(j)

\* C8: get_mount_mode returns one of the three modes: the file's content
\* without surrounding whitespace if that is a mode, otherwise disabled when
\* the lite-mode marker exists and magic when it does not; and no step changes
\* the mode file or the marker.
C8_ModeNormalized ==
    /\ [](modeResult # "none" =>
            /\ modeResult \in MountModes
            /\ \A w \in MountModes : Recognised(w) => modeResult = w
            /\ (~ \E w \in MountModes : Recognised(w)) =>
                   modeResult = (IF liteMarker THEN MOUNT_MODE_DISABLED
                                               ELSE MOUNT_MODE_MAGIC))
    /\ [][UNCHANGED <<modeFile, modeContent, liteMarker>>]_vars

\* The mode file is missing and the lite-mode marker exists: disabled.
C8_Witness ==
    /\ modeResult = MOUNT_MODE_DISABLED
    /\ modeFile = "missing"
    /\ liteMarker

\* A mode name between whitespace is returned without the whitespace.
C8_WitnessTrim ==
    /\ modeResult = MOUNT_MODE_METAMODULE
    /\ modeContent = <<"ws", MOUNT_MODE_METAMODULE, "ws">>
    /\ liteMarker

\* The run's event log holds ev.
Has(ev) == \E i \in DOMAIN boot.log : boot.log[i] = ev

\* ev occurs in the event log before position i.
Before(ev, i) == \E j \in 1..(i - 1) : boot.log[j] = ev

OverlayChosen == boot.mode = MOUNT_MODE_MAGIC /\ boot.optIn /\ boot.probe

\* C1: in magic mode with overlay enabled the tiers are attempted in the order
\* image, direct, magic mount; a tier is attempted only after every earlier one
\* has failed, and the dispatch ends at the first success or after tier 3.
C1_TiersInOrder ==
    OverlayChosen =>
        LET t == boot.tierLog
        IN /\ Len(t) \in 1..3
           /\ \A i \in DOMAIN t : t[i].tier = i
           /\ \A i \in DOMAIN t : i < Len(t) => t[i].res = "err"
           /\ Has("dispatch_done") =>
                 /\ t[Len(t)].res \in {"ok", "err"}
                 /\ t[Len(t)].res = "err" => Len(t) = 3

\* Tiers 1 and 2 failed and tier 3 succeeded.
C1_Witness ==
    /\ OverlayChosen
    /\ Has("dispatch_done")
    /\ Len(boot.tierLog) = 3
    /\ boot.tierLog[3].res = "ok"

\* Tier 1 succeeded after mounting an overlay, and the run went on.
C1_WitnessFirstTier ==
    /\ OverlayChosen
    /\ Has("post_mount")
    /\ Len(boot.tierLog) = 1
    /\ boot.tierLog[1].res = "ok"
    /\ mounts # <<>>

\* C4: a run whose copy into the image failed ends with the pending-update
\* marker still set (so that the next run rebuilds the image).
C4_MarkerSurvivesFailedCopy ==
    (boot.pc = "done" /\ boot.copyFailed) => fs.marker

RemovalEvents == {"rm_flag", "rm_flag_tier1"}

\* C5 (as stated): every removal of the marker comes after the dispatch, the
\* stage scripts and hook, the property injection and the post-mount stage.
C5_MarkerClearedLast ==
    \A i \in DOMAIN boot.log :
        boot.log[i] \in RemovalEvents =>
            \A ev \in {"dispatch_done", "stage_script", "stage_lua", "system_prop",
                       "post_mount"} : Before(ev, i)

\* C5 (amended): the run's own removal of the marker comes after the dispatch,
\* the stage scripts and hook and the property injection, and before the
\* post-mount stage; the only other removal is the image tier's, inside the
\* dispatch and after the image was mounted; and a marker set at the start of
\* the run is unset only by one of the two.
C5_MarkerClearedBeforePostMount ==
    /\ \A i \in DOMAIN boot.log :
          /\ boot.log[i] = "rm_flag" =>
                /\ \A ev \in {"dispatch_done", "stage_script", "stage_lua",
                              "system_prop"} : Before(ev, i)
                /\ ~Before("post_mount", i)
          /\ boot.log[i] = "post_mount" => Before("rm_flag", i)
          /\ boot.log[i] = "rm_flag_tier1" =>
                /\ Before("image_mounted", i)
                /\ ~Before("dispatch_done", i)
    /\ (boot.marker0 /\ ~fs.marker) => \E ev \in RemovalEvents : Has(ev)

\* A run that began with the marker set, never entered the image tier and
\* removed the marker before it triggered post-mount.
C5_Witness ==
    /\ boot.marker0
    /\ ~fs.marker
    /\ Has("post_mount")
    /\ ~Has("rm_flag_tier1")
    /\ boot.pc = "done"

\* C6: whenever an overlay is mounted, every entry of the module tree and of
\* the overlay root carries the system label.
C6_NoMislabeledOverlay ==
    \A i \in DOMAIN mounts : mounts[i].clean

\* C9: in disabled mode no tier is attempted, no overlay or image is mounted
\* and the metamodule mount script does not run.
C9_DisabledMountsNothing ==
    boot.mode = MOUNT_MODE_DISABLED =>
        /\ boot.tierLog = <<>>
        /\ mounts = <<>>
        /\ ~Has("meta_mount")
        /\ ~Has("image_mounted")

\* A disabled-mode run that went through to its end.
C9_Witness ==
    /\ boot.mode = MOUNT_MODE_DISABLED
    /\ Has("post_mount")
    /\ boot.pc = "done"
    /\ boot.res = "ok"

\* C10: tiers 1 and 2 are attempted only with the opt-in marker present and
\* the kernel probe successful; in magic mode without either, magic mount is
\* the only tier attempted, once, and no overlay is mounted.
C10_OverlayOnlyWhenEnabled ==
    LET t == boot.tierLog
    IN /\ (\E i \in DOMAIN t : t[i].tier \in {1, 2}) => (boot.optIn /\ boot.probe)
       /\ (boot.mode = MOUNT_MODE_MAGIC /\ ~(boot.optIn /\ boot.probe)) =>
             /\ Len(t) <= 1
             /\ \A i \in DOMAIN t : t[i].tier = 3
             /\ mounts = <<>>
             /\ ~Has("image_mounted")
             /\ Has("dispatch_done") => Len(t) = 1

\* Magic mode, the kernel supports overlayfs but the opt-in marker is absent:
\* magic mount alone ran.
C10_Witness ==
    /\ boot.mode = MOUNT_MODE_MAGIC
    /\ ~boot.optIn
    /\ boot.probe
    /\ Has("dispatch_done")
    /\ Len(boot.tierLog) = 1
    /\ boot.tierLog[1].tier = 3

\* Every lowerdir list of the call: the lists being built, the lists handed
\* to mount_partition and the lists of the overlays mounted.
OvlLists ==
    {ovl.system_lowerdir}
    \cup {ovl.partition_lowerdir[part] : part \in DOMAIN ovl.partition_lowerdir}
    \cup {ovl.calls[i].lowerdir : i \in DOMAIN ovl.calls}
    \cup {ovl.mounted[i].lowerdir : i \in DOMAIN ovl.mounted}

\* C11: the partition overlay set holds no tracked partition whose mount
\* point is absent (no list is built for it and mount_partition is never
\* called for it), and in every list a module's system/$PART layer stands
\* before the same module's $PART layer.
C11_DiscoverySound ==
    /\ DOMAIN ovl.partition_lowerdir \subseteq ovl.partsExist
    /\ \A i \in DOMAIN ovl.calls :
          ovl.calls[i].part # "system" => ovl.calls[i].part \in ovl.partsExist
    /\ \A l \in OvlLists : \A i, j \in DOMAIN l :
          (/\ Len(l[i]) = 4
           /\ Len(l[j]) = 3
           /\ l[i][3] = "system"
           /\ l[i][2] = l[j][2]
           /\ l[i][4] = l[j][3]) => i < j

\* A module with both vendor layers and a product layer, on a device with
\* /vendor but without /product: the call ended with vendor mounted from a
\* list holding both layers.
C11_Witness ==
    /\ ovl.pc = "done"
    /\ ovl.res = "ok"
    /\ ovl.partsExist = {"vendor"}
    /\ \E n \in DOMAIN ovl.entries :
          /\ ovl.entries[n].isDir /\ Contributes(ovl.entries[n])
          /\ "product" \in ovl.entries[n].topParts
          /\ \E i \in DOMAIN ovl.calls :
                /\ ovl.calls[i].part = "vendor"
                /\ \E a, b \in DOMAIN ovl.calls[i].lowerdir :
                      /\ ovl.calls[i].lowerdir[a] = <<ovl.root, n, "system", "vendor">>
                      /\ ovl.calls[i].lowerdir[b] = <<ovl.root, n, "vendor">>

\* C12: a module whose disable marker or skip_mount marker is present has no
\* path in the system list nor in the list of any partition.
C12_MarkedModuleContributesNothing ==
    \A n \in DOMAIN ovl.entries :
       (ovl.entries[n].disabled \/ ovl.entries[n].skip) =>
          \A l \in OvlLists : \A i \in DOMAIN l : l[i][2] # n

\* A disabled or skipped module that has a system/ subtree was scanned next
\* to a module that contributed, and the call mounted something.
C12_Witness ==
    /\ ovl.pc = "done"
    /\ ovl.mounted # <<>>
    /\ \E n \in DOMAIN ovl.entries :
          /\ ovl.entries[n].disabled \/ ovl.entries[n].skip
          /\ ovl.entries[n].system
          /\ ovl.entries[n].sysParts \cap ovl.partsExist # {}

\* C13: a mount_partition call with an empty lowerdir list returns Ok, makes
\* no mount call, creates no directory and sets no label, and leaves no
\* overlay for that partition.
C13_EmptyLowerdirIsNoOp ==
    \A i \in DOMAIN ovl.calls :
       LET c == ovl.calls[i]
       IN c.lowerdir = <<>> =>
             /\ c.ok
             /\ c.overlays = 0
             /\ c.mkdirs = 0
             /\ c.setcons = 0
             /\ \A k \in DOMAIN ovl.mounted : ovl.mounted[k].part # c.part

\* With the overlay root present, one partition was called with an empty
\* list and another with layers, for which the directories were prepared.
C13_Witness ==
    /\ ovl.rwExists
    /\ \E i, j \in DOMAIN ovl.calls :
          /\ ovl.calls[i].lowerdir = <<>>
          /\ ovl.calls[i].part # "system"
          /\ ovl.calls[j].lowerdir # <<>>
          /\ ovl.calls[j].mkdirs = 2

\* C14: the first mount_partition call of a run is the one for "system", every
\* other call comes after it has returned Ok, and a failed system mount ends
\* the run with no other partition called or mounted.
C14_SystemFirst ==
    /\ ovl.calls # <<>> => ovl.calls[1].part = "system"
    /\ \A i \in DOMAIN ovl.calls : i > 1 =>
          ovl.calls[i].part # "system" /\ ovl.calls[1].ok
    /\ \A k \in DOMAIN ovl.mounted : ovl.mounted[k].part # "system" =>
          ovl.calls # <<>> /\ ovl.calls[1].ok
    /\ (ovl.calls # <<>> /\ ~ovl.calls[1].ok) =>
          /\ Len(ovl.calls) = 1
          /\ ovl.mounted = <<>>
          /\ ovl.pc = "done"
          /\ ovl.res = "err"

\* The system overlay was mounted and then the overlay of another partition.
C14_Witness ==
    /\ Len(ovl.calls) >= 2
    /\ ovl.calls[1].overlays = 1
    /\ ovl.calls[2].overlays = 1
    /\ ovl.calls[2].ok

\* The system mount failed while a partition had layers waiting.
C14_WitnessSystemFails ==
    /\ ovl.calls # <<>>
    /\ ~ovl.calls[1].ok
    /\ \E part \in DOMAIN ovl.partition_lowerdir : ovl.partition_lowerdir[part] # <<>>

\* What run_stage did, and what on_post_data_fs did itself, in order.
RunStageLog == SelectSeq(stg.log, LAMBDA e : e.by = "run_stage")

PdfsLog == SelectSeq(stg.log, LAMBDA e : e.by = "on_post_data_fs")

Evs(l) == [i \in DOMAIN l |-> l[i].ev]

\* run_stage was called and has returned.
RunStageReturned ==
    \/ stg.pc = "rs_ret"
    \/ stg.pc = "done" /\ stg.caller # "on_post_data_fs"
    \/ stg.pc = "done" /\ \E i \in DOMAIN stg.log : stg.log[i].ev = "mount_dispatch"

C15_WitnessPostDataFs ==
    /\ stg.caller = "on_post_data_fs"
    /\ stg.safe
    /\ stg.pc = "done"
    /\ stg.res = "ok"
    /\ Evs(stg.log) = <<"disable_all_modules", "disable_all_modules">>

\* The steps run_stage has attempted are the first ones of the fixed order.
StepsInOrder ==
    /\ Len(RunStageLog) <= Len(StageSteps)
    /\ \A i \in DOMAIN RunStageLog : RunStageLog[i].ev = StageSteps[i]

\* C16 (as stated): outside safe mode a run_stage that has returned has
\* attempted its four steps, each once, in the fixed order.
C16_FourStepsOutsideSafeMode ==
    ~stg.safe =>
       /\ StepsInOrder
       /\ RunStageReturned => Len(RunStageLog) = Len(StageSteps)

\* C16 (amended): outside safe mode and with no Magisk detected, a run_stage
\* that has returned has attempted its four steps, each once, in the fixed
\* order, whatever steps failed; with Magisk detected it has attempted none;
\* run_stage has no error to return, so on_services ends with Ok.
C16_FourStepsUnlessMagisk ==
    /\ ~stg.safe =>
          /\ StepsInOrder
          /\ (RunStageReturned /\ ~stg.magisk) => Len(RunStageLog) = Len(StageSteps)
    /\ (RunStageReturned /\ stg.magisk) => RunStageLog = <<>>
    /\ (stg.caller = "on_services" /\ stg.pc = "done") => stg.res = "ok"

\* The metamodule script and the module scripts failed, and the lua hook was
\* attempted all the same.
C16_Witness ==
    /\ RunStageReturned
    /\ ~stg.safe
    /\ ~stg.magisk
    /\ Len(RunStageLog) = 4
    /\ ~RunStageLog[1].ok
    /\ ~RunStageLog[3].ok
    /\ RunStageLog[4].ev = "lua"

\* The position in the log of the first `ev`, 0 if there is none.
First(ev) == IF Has(ev) THEN CHOOSE i \in DOMAIN boot.log :
                                /\ boot.log[i] = ev
                                /\ \A j \in DOMAIN boot.log : boot.log[j] = ev => i <= j
             ELSE 0

\* C17: a run of on_post_data_fs that has read the mount mode and has ended,
\* has ended after the dispatch, the post-fs-data scripts, the lua hook,
\* system.prop and the post-mount stage, in this order, whatever the tiers or
\* the metamodule mount script returned.
C17_MountFailuresNeverAbort ==
    (boot.pc = "done" /\ boot.mode # "unread") =>
       /\ 0 < First("dispatch_done")
       /\ First("dispatch_done") < First("stage_script")
       /\ First("stage_script") < First("stage_lua")
       /\ First("stage_lua") < First("system_prop")
       /\ First("system_prop") < First("post_mount")

\* The image tier, the direct tier and magic mount all failed, and the run
\* ended after the post-mount stage.
C17_Witness ==
    /\ boot.pc = "done"
    /\ Len(boot.tierLog) = 3
    /\ \A i \in 1..3 : boot.tierLog[i].tier = i /\ boot.tierLog[i].res = "err"
    /\ Has("post_mount")

\* The metamodule's mount script failed, and the run ended after the
\* post-mount stage.
C17_WitnessMetamodule ==
    /\ boot.pc = "done"
    /\ boot.metaRes = "err"
    /\ Has("post_mount")

\* C18 (as stated): a mount primitive that returns Ok has left the mount it
\* created private.
C18_NewMountPrivate ==
    lm.res = "ok" => (lm.mnt # "none" /\ lm.prop = "private")

\* What the code does guarantee: mount_tmpfs returns Ok only after
\* mount_change(PRIVATE) succeeded on the new mount, on both paths; bind_mount
\* makes no mount_change call at all.
C18_OnlyTmpfsMadePrivate ==
    /\ (lm.fn = "mount_tmpfs" /\ lm.res = "ok") =>
          /\ lm.prop = "private"
          /\ lm.syscalls[Len(lm.syscalls)] = [name |-> "mount_change", ok |-> TRUE]
    /\ lm.fn = "bind_mount" =>
          \A i \in DOMAIN lm.syscalls : lm.syscalls[i].name # "mount_change"

\* C19 (as stated): once the observer has reported an error or its sender
\* has been dropped, rx.recv() eventually fails, which ends the main loop.
C19_ClosedChannelEndsLoop ==
    (obs.errored \/ "tx_clone" \notin obs.senders) ~> RecvDisconnected

\* What the code does: `tx` is alive as long as the loop is, so rx.recv()
\* never fails and the loop never ends.
C19_RecvNeverFails == "tx" \in obs.senders /\ ~RecvDisconnected

\* The observer reported an error, its sender is gone, nothing is queued and
\* the main loop is blocked in rx.recv().
C19_WitnessBlocked ==
    /\ obs.errored
    /\ obs.senders = {"tx"}
    /\ chan = <<>>
    /\ wpc = "recv"
    /\ ~debounce

\* C20: the signal thread makes at most one refresh call, exactly one once it
\* has exited, and takes no signal after that; its steps leave the channel
\* and the debounce loop as they are, and no step of it ends the main loop,
\* which keeps taking starts.
C20_ShutdownOneShot ==
    /\ [](/\ nSigRefresh <= 1
          /\ spc = "done" => (nSigRefresh = 1 /\ sigPending = nSignals - 1))
    /\ [][spc' # spc => UNCHANGED <<chan, wpc, debounce, timerLog, nDebRefresh, obs>>]_vars
    /\ [][spc = "done" => spc' = "done" /\ nSigRefresh' = nSigRefresh]_vars

\* After the signal thread exited, a second signal arrived and was left
\* untaken, and a start posted later went through its timer to a completed
\* refresh by the main loop.
C20_Witness ==
    /\ spc = "done"
    /\ nSignals = 2
    /\ sigPending = 1
    /\ nSigRefresh = 1
    /\ timerLog # <<>>
    /\ timerLog[Len(timerLog)].afterShutdown
    /\ nDebRefresh = Len(timerLog)
    /\ wpc = "recv"

\* C21: restorecon has been called and has returned before the mount mode is
\* read, hence before the metamodule mount script, before every tier and
\* before anything is mounted.
C21_RestoreconBeforeMounts ==
    /\ (\/ boot.mode # "unread"
        \/ boot.tierLog # <<>>
        \/ boot.ovlTier # 0
        \/ mounts # <<>>) => Has("restorecon")
    /\ \A ev \in {"meta_mount", "image_mounted", "dispatch_done"} :
          Has(ev) => (0 < First("restorecon") /\ First("restorecon") < First(ev))

\* restorecon left an entry with a label other than the system one (it
\* failed part-way, which is only logged), and an overlay was mounted after it.
C21_Witness ==
    /\ Has("restorecon")
    /\ mounts # <<>>
    /\ ~mounts[1].clean

\* The metamodule mount script ran, after restorecon.
C21_WitnessMetamodule ==
    /\ Has("meta_mount")
    /\ First("restorecon") < First("meta_mount")

\* The image tier is returning to the match in on_post_data_fs.
ImageTierReturns == boot.pc = "tier_ret" /\ boot.ovlTier = 1

\* C22 (as stated): when the image tier returns, the marker has been removed
\* only on a rebuild whose copy succeeded; after a failed creation, format,
\* image mount or copy, a copy command with a non-zero exit status included,
\* the marker is still present.
C22_MarkerRemovedOnlyAfterGoodCopy ==
    ImageTierReturns =>
       /\ Has("rm_flag_tier1") => (boot.rebuilt /\ ~boot.copyFailed)
       /\ boot.copyFailed => fs.marker
       /\ (~Has("rm_flag_tier1") /\ (boot.marker0 \/ boot.rebuilt)) => fs.marker

\* What the code does guarantee: the marker is removed by the tier only on a
\* rebuild, after the image was mounted and the copy command was waited for;
\* a tier that stops before that leaves the marker set.
C22_MarkerKeptWhenTierStopsEarly ==
    ImageTierReturns =>
       /\ Has("rm_flag_tier1") => (boot.rebuilt /\ Has("image_mounted"))
       /\ (~Has("rm_flag_tier1") /\ (boot.marker0 \/ boot.rebuilt)) => fs.marker

\* The copy command exited with a non-zero status, the marker is gone and the
\* tier returns.
C22_WitnessNonZeroExit ==
    /\ ImageTierReturns
    /\ boot.copyFailed
    /\ Has("rm_flag_tier1")
    /\ ~fs.marker

\* The classic mount(2) call has been made.
ClassicTried == \E i \in DOMAIN lm.syscalls : lm.syscalls[i].name = "mount"

\* C23 (as stated): a call that returns an error has tried the classic mount
\* call, and that call failed.
C23_ErrorOnlyAfterClassicFailed ==
    lm.res = "err" =>
       \E i \in DOMAIN lm.syscalls : lm.syscalls[i] = [name |-> "mount", ok |-> FALSE]

\* C23 (amended): the classic mount call is made exactly when the first call
\* of the new path (open_tree, fsopen) failed; once that call has succeeded,
\* the failure of a later step is returned and the classic call is not made;
\* a call returns an error exactly when the last system call it made failed,
\* and Ok only with the mount attached.
C23_FallbackOnlyWhenFirstCallFails ==
    /\ lm.syscalls # <<>> =>
          /\ lm.syscalls[1].name = IF lm.fn = "bind_mount" THEN "open_tree" ELSE "fsopen"
          /\ ClassicTried => ~lm.syscalls[1].ok
          /\ (~lm.syscalls[1].ok /\ lm.pc = "done") => ClassicTried
    /\ lm.pc = "done" =>
          /\ lm.syscalls # <<>>
          /\ (lm.res = "err") = ~lm.syscalls[Len(lm.syscalls)].ok
          /\ \A i \in 1..(Len(lm.syscalls) - 1) :
                lm.syscalls[i].ok \/ (i = 1 /\ ClassicTried)
    /\ lm.res = "ok" => lm.mnt # "none"

\* open_tree (or fsopen) succeeded, move_mount failed, and the call returned
\* the error without the classic mount call.
C23_Witness ==
    /\ lm.pc = "done"
    /\ lm.res = "err"
    /\ lm.syscalls[1].ok
    /\ lm.syscalls[Len(lm.syscalls)] = [name |-> "move_mount", ok |-> FALSE]
    /\ ~ClassicTried

\* The first call failed and the classic mount call attached the mount.
C23_WitnessFallback ==
    /\ lm.pc = "done"
    /\ lm.res = "ok"
    /\ ~lm.syscalls[1].ok
    /\ ClassicTried

\* The k-th start has been posted.
Posted(k) == k <= Len(obs.posted)

\* The main loop has made a refresh call after the k-th start was posted.
RefreshedAfter(k) == Posted(k) /\ nDebRefresh > obs.posted[k]

\* C24: with the threads scheduled and every refresh call returning, each
\* start posted is followed by a refresh call of the main loop made after it
\* was posted, wherever the loop was when the start arrived.
C24_EveryStartRefreshed ==
    \A k \in 1..MaxStarts : Posted(k) ~> RefreshedAfter(k)

\* One start arrived during the sleep and one while the fire was queued, and
\* the main loop is in a refresh call made after the last of the starts.
C24_Witness ==
    /\ Len(obs.posted) = MaxStarts
    /\ \A k \in 1..MaxStarts : RefreshedAfter(k)
    /\ wpc = "refreshing"
    /\ \E i \in DOMAIN timerLog : timerLog[i].inWindow /\ ~timerLog[i].inSleep
    /\ Len(timerLog) < MaxStarts

\* C25: when the module root cannot be read, the tier returns Ok without a
\* mount call, the dispatch ends there and no later tier is attempted.
C25_UnreadableRootEndsChain ==
    boot.readFailed # 0 =>
       /\ boot.tierLog # <<>>
       /\ boot.tierLog[Len(boot.tierLog)].tier = boot.readFailed
       /\ boot.tierLog[Len(boot.tierLog)].res \in {"running", "ok"}
       /\ boot.pc = "tier_ret" => boot.tres = "ok"
       /\ \A i \in DOMAIN mounts : mounts[i].tier # boot.readFailed

\* The real module directory holds a module with layers, the direct tier
\* could not read it after the image tier failed, and the run ended with
\* nothing mounted by the direct tier and no magic mount.
C25_Witness ==
    /\ boot.readFailed = 2
    /\ boot.pc = "done"
    /\ Len(boot.tierLog) = 2
    /\ boot.tierLog[1].res = "err"
    /\ boot.tierLog[2].res = "ok"
    /\ \E m \in fs.modules : Contributes(m) /\ m.system

\* The image tier could not read the mounted image's root: it returned Ok
\* and the direct tier was not attempted.
C25_WitnessImageTier ==
    /\ boot.readFailed = 1
    /\ boot.pc = "done"
    /\ Len(boot.tierLog) = 1
    /\ mounts = <<>>

\* C26 (as stated): while the direct tier or magic mount is attempted, no
\* overlay mounted by an earlier tier is in place, and no partition has two
\* overlays.
C26_NoOverlayLeftByFailedTier ==
    /\ boot.ovlTier = 2 => \A i \in DOMAIN mounts : mounts[i].tier = 2
    /\ boot.pc = "magic_mount" => mounts = <<>>
    /\ \A i, j \in DOMAIN mounts : mounts[i].part = mounts[j].part => i = j

\* The image tier mounted the system overlay and failed on a later
\* partition; the direct tier mounted a second overlay on system.
C26_WitnessMountedTwice ==
    \E i, j \in DOMAIN mounts :
       /\ mounts[i].part = "system" /\ mounts[i].tier = 1
       /\ mounts[j].part = "system" /\ mounts[j].tier = 2

====
